---- MODULE Spec2Model ----
(***************************************************************************)
(* CupidsShield: the human-in-the-loop moderation workflow                 *)
(* (agents/moderation_agent_hitl.py) over its checkpoint store and the     *)
(* SQLite case store (data/db.py).                                         *)
(*                                                                         *)
(* The agent compiles a LangGraph StateGraph with a MemorySaver            *)
(* checkpointer and interrupt_before = ["human_review"].  The model        *)
(* follows what those calls do:                                            *)
(*   - every key of ModerationState is a last-value channel; a node that   *)
(*     returns the state dict writes every key it holds;                   *)
(*   - a checkpoint (channel values + the nodes to run next) is put after  *)
(*     every superstep, and MemorySaver never deletes one;                 *)
(*   - ainvoke(input) on a thread loads the latest checkpoint, discards    *)
(*     its unfinished tasks, merges the input and starts at the entry      *)
(*     point; ainvoke(None) continues with the unfinished tasks and does   *)
(*     not interrupt before them;                                          *)
(*   - update_state(values, as_node) works on an empty thread too, writes  *)
(*     the values and runs the writers of as_node, the conditional edge    *)
(*     included, which schedules the route target;                         *)
(*   - two nodes in one superstep that write the same key raise            *)
(*     InvalidUpdateError after both have run.                             *)
(* Confidence is held in percent (0.75 is 75).  A pipeline state is a      *)
(* function whose domain is the set of keys the dict holds.                *)
(***************************************************************************)
EXTENDS Integers, Sequences, FiniteSets, TLC

\* ------------------------------------------------------------------ bounds
MaxCalls == 3

MaxInFlight == 2

MaxPolicyCalls == 2

MaxRouteCalls == 3

MaxLost == 7

MaxRows == 2

MaxLines == 3

MaxAppealRuns == 1

MaxConfidenceStep == 11

MaxRecords == 3

MaxResetCalls == 2

MaxStatisticsCalls == 1

Threads == {"t1", "t2"}
Contents == {"c1"}

\* the reviews a moderator submits: decision, reasoning, moderator id
Reviews ==
    { [moderator_decision |-> "approved", moderator_reasoning |-> "why", moderator_id |-> "m1"],
      [moderator_decision |-> "rejected", moderator_reasoning |-> "why", moderator_id |-> "m2"],
      [moderator_decision |-> "escalated", moderator_reasoning |-> "why", moderator_id |-> "m1"] }

\* what _parse_llm_response hands to the assessment step
Assessments ==
    { [violation_type |-> "None", severity |-> "None", confidence |-> 95],
      [violation_type |-> "harassment", severity |-> "high", confidence |-> 60],
      [violation_type |-> "harassment", severity |-> "high", confidence |-> 80],
      [violation_type |-> "harassment", severity |-> "critical", confidence |-> 95] }

\* config/moderation_config.yaml as loaded by __init__
Configs ==
    { [ confidence_thresholds |-> [auto_reject |-> 90, escalate |-> 70],
        policy_rules |-> [harassment |-> [actions |-> [critical |-> "permanent_ban_and_report"]]] ] }

\* configurations whose auto-reject threshold lies under the review floor
\* and whose escalate threshold lies over it
PolicyConfigs ==
    Configs \cup
    { [ confidence_thresholds |-> [auto_reject |-> 70, escalate |-> 50],
        policy_rules |-> [harassment |-> [actions |-> [critical |-> "permanent_ban_and_report"]]] ],
      [ confidence_thresholds |-> [auto_reject |-> 95, escalate |-> 80],
        policy_rules |-> [harassment |-> [actions |-> [critical |-> "permanent_ban_and_report"]]] ] }

\* assessments on both sides of every threshold, with and without a
\* violation, with and without an entry in the action table
PolicyAssessments ==
    Assessments \cup
    { [violation_type |-> "None", severity |-> "None", confidence |-> 60],
      [violation_type |-> "harassment", severity |-> "high", confidence |-> 70],
      [violation_type |-> "harassment", severity |-> "high", confidence |-> 72],
      [violation_type |-> "harassment", severity |-> "high", confidence |-> 78],
      [violation_type |-> "harassment", severity |-> "high", confidence |-> 95],
      [violation_type |-> "scams", severity |-> "critical", confidence |-> 90],
      [violation_type |-> "harassment", severity |-> "None", confidence |-> 95] }

\* ----------------------------------------------------------- dict helpers
Has(s, k) == k \in DOMAIN s

Get(s, k, default) == IF k \in DOMAIN s THEN s[k] ELSE default

Put(s, k, v) == [x \in (DOMAIN s) \cup {k} |-> IF x = k THEN v ELSE s[x]]

Merge(s, p) == [x \in (DOMAIN s) \cup (DOMAIN p) |-> IF x \in DOMAIN p THEN p[x] ELSE s[x]]

EmptyDict == [x \in {} |-> "None"]

\* Python truthiness of a string-or-None value
Truthy(v) == v \notin {"None", ""}

\* --------------------------------------------------------------- the graph
Nodes == {"intake", "risk_assessment", "make_decision", "human_review",
          "execute_action", "send_notification"}

\* compiled without the interrupt
InterruptBefore_none == {}

InterruptBefore == {"human_review"}

ReviewFloor == 75

VectorFloor == 50

_route_after_decision(s) ==
    IF Get(s, "decision", "None") = "escalated" THEN "human_review"
    ELSE IF Get(s, "confidence", 0) <= ReviewFloor THEN "human_review"
    ELSE "execute_action"

\* the edges of _build_workflow_graph: the nodes scheduled once n has written s
Successors(n, s) ==
    CASE n = "intake" -> {"risk_assessment"}
      [] n = "risk_assessment" -> {"make_decision"}
      [] n = "make_decision" -> {_route_after_decision(s)}
      [] n = "human_review" -> {"execute_action"}
      [] n = "execute_action" -> {"send_notification"}
      [] n = "send_notification" -> {}

\* --------------------------------------------------------------- the nodes
_intake_node(s) ==
    IF ~Truthy(Get(s, "content", "None"))
    THEN Put(s, "error", "No content provided")
    ELSE Put(s, "notification_sent", FALSE)

_risk_assessment_node(s, parsed) ==
    Merge(s, [violation_type |-> parsed.violation_type,
              severity |-> parsed.severity,
              confidence |-> parsed.confidence,
              reasoning |-> <<"ai">>])

ResolveAction(cfg, violation_type, severity) ==
    LET policy_rules == Get(cfg.policy_rules, violation_type, EmptyDict)
        actions == Get(policy_rules, "actions", EmptyDict)
    IN  Get(actions, severity, "permanent_ban")

\* the thresholds compared strictly
Decide_exclusive(cfg, violation_type, confidence) ==
    IF violation_type = "None" THEN "approved"
    ELSE IF confidence > cfg.confidence_thresholds.auto_reject THEN "rejected"
    ELSE IF confidence > cfg.confidence_thresholds.escalate THEN "escalated"
    ELSE "pending"

Decide(cfg, violation_type, confidence) ==
    IF violation_type = "None" THEN "approved"
    ELSE IF confidence >= cfg.confidence_thresholds.auto_reject THEN "rejected"
    ELSE IF confidence >= cfg.confidence_thresholds.escalate THEN "escalated"
    ELSE "pending"

_decision_node(s, cfg) ==
    LET confidence == s["confidence"]
        violation_type == s["violation_type"]
        decision == Decide(cfg, violation_type, confidence)
        action == CASE decision = "approved" -> "None"
                    [] decision = "rejected" -> ResolveAction(cfg, violation_type, s["severity"])
                    [] OTHER -> "flag_for_review"
    IN  Merge(s, [decision |-> decision,
                  action |-> action,
                  needs_human_review |-> (decision \in {"escalated", "pending"} \/ confidence < 70)])

\* the add_flagged_content call at the end of _decision_node
DecisionFlags(s) == Truthy(s["violation_type"]) /\ s["confidence"] >= VectorFloor

\* the override that forgets who reviewed
_human_review_node_no_reviewer(s) ==
    LET moderator_decision == Get(s, "moderator_decision", "None")
    IN  IF Truthy(moderator_decision)
        THEN Put(s, "decision", moderator_decision)
        ELSE s

_human_review_node(s) ==
    LET moderator_decision == Get(s, "moderator_decision", "None")
        moderator_reasoning == Get(s, "moderator_reasoning", "None")
        moderator_id == Get(s, "moderator_id", "moderator_001")
    IN  IF Truthy(moderator_decision)
        THEN LET s1 == Merge(s, [decision |-> moderator_decision,
                                 reasoning |-> <<"MODERATOR OVERRIDE", moderator_reasoning>>
                                               \o Get(s, "reasoning", <<"N/A">>),
                                 reviewed_by |-> moderator_id])
             IN  IF moderator_decision = "rejected" THEN Put(s1, "action", "permanent_ban")
                 ELSE IF moderator_decision = "approved" THEN Put(s1, "action", "None")
                 ELSE s1
        ELSE s

_notification_node(s) == Put(s, "notification_sent", TRUE)

\* the tagging at the end of run(): the result handed to the caller
RunResult(s) ==
    IF ~Get(s, "notification_sent", FALSE)
       /\ Get(s, "decision", "None") \in {"escalated", "pending"}
    THEN Put(s, "status", "PAUSED_FOR_HUMAN_REVIEW")
    ELSE s

\* ------------------------------------------------------ the case store
\* moderation_cases rows; a row's id is its position.  create_case commits
\* the row and then inserts the queue item and the audit entry on the same
\* connection, which get_connection closes without a commit: those inserts
\* are rolled back and only counted here.
CaseRow(s) ==
    [ content |-> Get(s, "content", ""),
      decision |-> Get(s, "decision", "pending"),
      reasoning |-> Get(s, "reasoning", <<"No reasoning provided">>),
      confidence |-> Get(s, "confidence", 0),
      violation_type |-> Get(s, "violation_type", "None"),
      severity |-> Get(s, "severity", "None"),
      reviewed_by |-> Get(s, "reviewed_by", "agent") ]

create_case(cs, s) == Append(cs, CaseRow(s))

update_case_decision(cs, case_id, decision, reasoning, reviewed_by) ==
    IF case_id \in 1..Len(cs)
    THEN [cs EXCEPT ![case_id] = [@ EXCEPT !.decision = decision,
                                           !.reasoning = reasoning,
                                           !.reviewed_by = reviewed_by]]
    ELSE cs

\* _action_node: the pipeline state it returns
_action_node(s, cs) ==
    IF ~Has(s, "case_id") THEN Put(s, "case_id", Len(cs) + 1) ELSE s

\* _action_node: the moderation_cases table it leaves
ActionCases(s, cs) ==
    IF ~Has(s, "case_id")
    THEN create_case(cs, s)
    ELSE update_case_decision(cs, s["case_id"],
                              Get(s, "decision", "approved"),
                              Get(s, "reasoning", <<"Updated by workflow">>),
                              Get(s, "reviewed_by", "agent"))

ExecutesAction(s) ==
    Truthy(Get(s, "action", "None")) /\ Get(s, "action", "None") # "flag_for_review"

\* inserts executed by node n on state s that no commit follows
RolledBack(n, s) ==
    CASE n = "execute_action" ->
           (IF ~Has(s, "case_id")
            THEN (IF Get(s, "decision", "pending") = "escalated" THEN 2 ELSE 1)
            ELSE 1)
           + (IF ExecutesAction(s) THEN 1 ELSE 0)
      [] n = "send_notification" -> 1
      [] OTHER -> 0

\* add_flagged_content calls made by node n on state s
FlaggedAdds(n, s) ==
    CASE n = "make_decision" -> IF DecisionFlags(s) THEN 1 ELSE 0
      [] n = "execute_action" ->
           IF Has(s, "case_id") /\ Truthy(Get(s, "violation_type", "None")) THEN 1 ELSE 0
      [] OTHER -> 0

\* add_historical_case calls made by node n on state s
HistoricalAdds(n, s) ==
    IF n = "execute_action" /\ Has(s, "case_id") THEN 1 ELSE 0

RECURSIVE Tally(_, _, _)
\* the inserts of one kind made by all the nodes of P run on state s
Tally(kind, P, s) ==
    IF P = {} THEN 0
    ELSE LET n == CHOOSE x \in P : TRUE
         IN  (CASE kind = "rolled_back" -> RolledBack(n, s)
                [] kind = "flagged" -> FlaggedAdds(n, s)
                [] kind = "historical" -> HistoricalAdds(n, s))
             + Tally(kind, P \ {n}, s)

\* ------------------------------------- queue, audit log and connections
\* the id string of the moderation_cases row at position k; the case review
\* form also hands it to the agent as a thread id
CaseNames == <<"case_1", "case_2", "case_3", "case_4", "case_5", "case_6">>

CaseId(k) == CaseNames[k]

CaseThreads == {CaseNames[k] : k \in 1..Len(CaseNames)}

AllThreads == Threads \cup CaseThreads

\* the row position of a case id, 0 when no row has it
CaseRowOf(cs, id) ==
    IF \E k \in 1..Len(cs) : CaseId(k) = id
    THEN CHOOSE k \in 1..Len(cs) : CaseId(k) = id
    ELSE 0

\* get_connection closes the connection without a commit: the rows inserted
\* on it since its last commit are rolled back
get_connection(committed, uncommitted) == committed

_add_to_review_queue(case_id, appeal_id, priority) ==
    [case_id |-> case_id, appeal_id |-> appeal_id, priority |-> priority,
     status |-> "pending", assigned_to |-> "None", created_at |-> 0]

_log_audit(case_id, appeal_id, action, actor) ==
    [case_id |-> case_id, appeal_id |-> appeal_id, action |-> action, actor |-> actor]

\* the rank the ORDER BY of get_review_queue gives a priority; a priority
\* outside the four has no rank (NULL) and sorts first
PriorityRank(priority) ==
    CASE priority = "urgent" -> 1
      [] priority = "high" -> 2
      [] priority = "medium" -> 3
      [] priority = "low" -> 4
      [] OTHER -> 0

\* CURRENT_TIMESTAMP of an insert into table rq: whole seconds. In the
\* pipeline specifications the clock has moved on at every insert; the tables
\* of QueueSpec also hold rows of the same second
CURRENT_TIMESTAMP(rq) == Len(rq) + 1

\* the orders in which a sort may leave rows that are equal in every key
TieOrders == {"rowid_asc", "rowid_desc"}

RECURSIVE Ordered(_, _, _)
\* the positions of P in rq by priority rank, then newest first
Ordered(rq, P, ties) ==
    IF P = {} THEN <<>>
    ELSE LET Before(i, j) ==
                 \/ PriorityRank(rq[i].priority) < PriorityRank(rq[j].priority)
                 \/ /\ PriorityRank(rq[i].priority) = PriorityRank(rq[j].priority)
                    /\ \/ rq[i].created_at > rq[j].created_at
                       \/ /\ rq[i].created_at = rq[j].created_at
                          /\ IF ties = "rowid_asc" THEN i <= j ELSE i >= j
             best == CHOOSE i \in P : \A j \in P : Before(i, j)
         IN  <<rq[best]>> \o Ordered(rq, P \ {best}, ties)

\* LIMIT n of SQLite: the first n rows, every row when n is negative
LIMIT(rows, n) ==
    IF n < 0 \/ n >= Len(rows) THEN rows ELSE SubSeq(rows, 1, n)

get_review_queue(rq, status, limit, ties) ==
    LIMIT(Ordered(rq, {i \in 1..Len(rq) : rq[i].status = status}, ties), limit)

\* the queue and audit rows create_case inserts after its commit
CreateCaseQueue(cs, s) ==
    IF Get(s, "decision", "pending") = "escalated"
    THEN <<_add_to_review_queue(CaseId(Len(cs) + 1), "None", "high")>>
    ELSE <<>>

CreateCaseAudit(cs, s) ==
    <<_log_audit(CaseId(Len(cs) + 1), "None", "case_created", Get(s, "reviewed_by", "agent"))>>

\* the audit rows node n inserts when it runs on state s with cases cs
AuditInserts(n, s, cs) ==
    CASE n = "execute_action" ->
           (IF ~Has(s, "case_id")
            THEN CreateCaseAudit(cs, s)
            ELSE <<_log_audit(CaseId(s["case_id"]), "None", "decision_updated",
                              Get(s, "reviewed_by", "agent"))>>)
           \o (IF ExecutesAction(s)
               THEN <<_log_audit(CaseId(IF Has(s, "case_id") THEN s["case_id"] ELSE Len(cs) + 1),
                                 "None", "moderation_action", Get(s, "reviewed_by", "agent"))>>
               ELSE <<>>)
      [] n = "send_notification" ->
           <<_log_audit(IF Has(s, "case_id") THEN CaseId(s["case_id"]) ELSE "unknown",
                        "None", "user_notification", "system")>>
      [] OTHER -> <<>>

\* the queue rows node n inserts
QueueInserts(n, s, cs) ==
    IF n = "execute_action" /\ ~Has(s, "case_id") THEN CreateCaseQueue(cs, s) ELSE <<>>

get_audit_log(al, case_id) ==
    SelectSeq(al, LAMBDA e : e.case_id = case_id)

\* the UPDATE without its status column
CompleteQueue_assign_only(rq, P, moderator_id) ==
    [i \in 1..Len(rq) |->
        IF i \in P THEN [rq[i] EXCEPT !.assigned_to = moderator_id] ELSE rq[i]]

\* the UPDATE of review_queue that marks the rows of P completed
CompleteQueue(rq, P, moderator_id) ==
    [i \in 1..Len(rq) |->
        IF i \in P THEN [rq[i] EXCEPT !.status = "completed", !.assigned_to = moderator_id]
        ELSE rq[i]]

\* start_hitl_workflow without its commit
RouteReturnQueue_no_commit(c, result, rq) ==
    CASE c.via = "start_hitl_workflow" ->
           IF Get(result, "status", "COMPLETED") = "PAUSED_FOR_HUMAN_REVIEW"
           THEN get_connection(rq, <<_add_to_review_queue(c.thread, "None", "high")>>)
           ELSE rq
      [] c.via = "resume_workflow" ->
           CompleteQueue(rq, {i \in 1..Len(rq) : rq[i].case_id = c.thread},
                         c.review.moderator_id)
      [] c.via = "submit_review" ->
           CompleteQueue(rq, {i \in 1..Len(rq) : /\ rq[i].case_id = CaseId(c.case)
                                                  /\ rq[i].status \in {"pending", "in_review"}},
                         c.review.moderator_id)
      [] OTHER -> rq

\* what the caller of the agent does to review_queue once call c has
\* returned result: start_hitl_workflow queues a paused run under its thread
\* id, resume_workflow completes the rows of its thread id, submit_review
\* the open rows of its case
RouteReturnQueue(c, result, rq) ==
    CASE c.via = "start_hitl_workflow" ->
           IF Get(result, "status", "COMPLETED") = "PAUSED_FOR_HUMAN_REVIEW"
           THEN Append(rq, [_add_to_review_queue(c.thread, "None", "high")
                                EXCEPT !.created_at = CURRENT_TIMESTAMP(rq)])
           ELSE rq
      [] c.via = "resume_workflow" ->
           CompleteQueue(rq, {i \in 1..Len(rq) : rq[i].case_id = c.thread},
                         c.review.moderator_id)
      [] c.via = "submit_review" ->
           CompleteQueue(rq, {i \in 1..Len(rq) : /\ rq[i].case_id = CaseId(c.case)
                                                  /\ rq[i].status \in {"pending", "in_review"}},
                         c.review.moderator_id)
      [] OTHER -> rq

\* what the caller does once call c has raised: submit_review falls back to
\* update_case_decision and completes the queue rows; the HITL endpoints
\* answer 500
RouteRaiseCases(c, cs) ==
    IF c.via = "submit_review"
    THEN update_case_decision(cs, c.case, c.review.moderator_decision,
                              <<c.review.moderator_reasoning>>, c.review.moderator_id)
    ELSE cs

RouteRaiseAudit(c) ==
    IF c.via = "submit_review"
    THEN <<_log_audit(CaseId(c.case), "None", "decision_updated", c.review.moderator_id)>>
    ELSE <<>>

RouteRaiseQueue(c, rq) ==
    IF c.via = "submit_review" THEN RouteReturnQueue(c, EmptyDict, rq) ELSE rq

\* ------------------------------------------------------------------ state
VARIABLES
    config,        \* the loaded configuration
    checkpointer,  \* MemorySaver: the latest checkpoint of each thread
    calls,         \* the run()/resume_with_human_input() calls made so far
    cases,         \* moderation_cases, committed rows
    rolled_back,   \* queue/audit inserts lost when their connection closed
    flagged,       \* flagged_content inserts, per thread
    historical,    \* historical_cases inserts
    policy_embeddings, \* policy_embeddings records
    execCount,     \* how often each node has run on each thread
    review_queue,  \* review_queue, committed rows
    audit_log,     \* audit_log, committed rows
    appeals        \* appeals, committed rows

vars == <<config, checkpointer, calls, cases, rolled_back, flagged, historical, policy_embeddings, execCount,
          review_queue, audit_log, appeals>>

NoCheckpoint == [exists |-> FALSE, values |-> EmptyDict, next |-> {}]

Running(i) == calls[i].pc = "running"

\* what the caller's thread looked like when the call was made
Pre(t) ==
    [ cp |-> checkpointer[t].exists,
      next |-> checkpointer[t].next,
      resumed |-> \E j \in 1..Len(calls) :
                     /\ calls[j].thread = t /\ calls[j].kind = "resume" /\ calls[j].pc = "returned"
                     /\ calls[j].pre.next = {"human_review"} /\ calls[j].pre.overlap = {},
      overlap |-> {j \in 1..Len(calls) : calls[j].thread = t /\ calls[j].pc = "running"},
      ncases |-> Len(cases),
      cases |-> cases,
      queue |-> review_queue,
      checkpoint |-> checkpointer[t] ]

NoReview ==
    [moderator_decision |-> "None", moderator_reasoning |-> "None", moderator_id |-> "None"]

NewCall(kind, t, s, pending, review) ==
    [ kind |-> kind, thread |-> t, pc |-> "running", st |-> s, pending |-> pending,
      review |-> review,
      ran |-> {}, result |-> EmptyDict, interrupted |-> FALSE,
      pre |-> Pre(t), cpLeft |-> FALSE, hrPatch |-> TRUE,
      via |-> "agent", case |-> 0 ]

InFlight == {j \in 1..Len(calls) : Running(j)}

\* a call can be made: the bounds on calls, and thread ids are taken into
\* use in order (they are interchangeable, so t2 is first used after t1)
CanCall(t) ==
    /\ Len(calls) < MaxCalls
    /\ Cardinality(InFlight) < MaxInFlight
    /\ (t = "t2" => \E j \in 1..Len(calls) : calls[j].thread = "t1")

InitWith(configs) ==
    /\ config \in configs
    /\ checkpointer = [t \in AllThreads |-> NoCheckpoint]
    /\ calls = <<>>
    /\ cases = <<>>
    /\ rolled_back = 0
    /\ flagged = [t \in AllThreads |-> 0]
    /\ historical = 0
    /\ policy_embeddings = 0
    /\ execCount = [t \in AllThreads |-> [n \in Nodes |-> 0]]
    /\ review_queue = <<>>
    /\ audit_log = <<>>
    /\ appeals = <<>>

Init == InitWith(Configs)

\* run(state, thread_id) up to the first node: ainvoke(state) loads the
\* thread's checkpoint, discards its unfinished tasks, merges the input and
\* puts the input checkpoint with the entry point scheduled.
StartVia(via, t, content) ==
    /\ CanCall(t)
    /\ LET s == Merge(checkpointer[t].values, [content |-> content])
       IN  /\ checkpointer' = [checkpointer EXCEPT ![t] =
                                  [exists |-> TRUE, values |-> s, next |-> {"intake"}]]
           /\ calls' = Append(calls, [NewCall("start", t, s, {"intake"}, NoReview)
                                        EXCEPT !.via = via])
    /\ UNCHANGED <<config, cases, rolled_back, flagged, historical, policy_embeddings, execCount,
                   review_queue, audit_log, appeals>>

\* resume_with_human_input up to the first node: update_state(as_node =
\* "make_decision") merges the patch into the thread's checkpoint (an empty
\* one when the thread has none) and schedules the route target beside the
\* tasks still unfinished; ainvoke(None) then loads that checkpoint.
ResumeVia(via, case_id, t, review) ==
    /\ CanCall(t)
    /\ LET s == Merge(checkpointer[t].values, review)
           next == checkpointer[t].next \cup {_route_after_decision(s)}
       IN  /\ checkpointer' = [checkpointer EXCEPT ![t] =
                                  [exists |-> TRUE, values |-> s, next |-> next]]
           /\ calls' = Append(calls, [NewCall("resume", t, s, next, review)
                                        EXCEPT !.via = via, !.case = case_id])
    /\ UNCHANGED <<config, cases, rolled_back, flagged, historical, policy_embeddings, execCount,
                   review_queue, audit_log, appeals>>

\* the agent called directly
Start(t, content) == StartVia("agent", t, content)

Resume(t, review) == ResumeVia("agent", 0, t, review)

\* the end of a superstep of call i that ran node n and left state s: the
\* checkpoint is put, and the call returns at the end of the graph or when
\* the next node is one to interrupt before.
Advance(i, n, s) ==
    LET c == calls[i]
        next == Successors(n, s)
        stops == next = {} \/ next \cap InterruptBefore # {}
    IN  /\ checkpointer' = [checkpointer EXCEPT ![c.thread] =
                               [exists |-> TRUE, values |-> s, next |-> next]]
        /\ calls' = [calls EXCEPT ![i] =
               [c EXCEPT !.st = s,
                         !.pending = next,
                         !.ran = @ \cup {n},
                         !.pc = IF stops THEN "returned" ELSE "running",
                         !.interrupted = next \cap InterruptBefore # {},
                         !.result = IF ~stops THEN EmptyDict
                                    ELSE IF c.kind = "start" THEN RunResult(s) ELSE s,
                         !.cpLeft = stops /\ checkpointer'[c.thread].exists,
                         !.hrPatch = IF n = "human_review"
                                     THEN \A k \in DOMAIN c.review :
                                              Get(c.st, k, "None") = c.review[k]
                                     ELSE @]]
        /\ execCount' = [execCount EXCEPT ![c.thread][n] = @ + 1]
        /\ review_queue' =
               LET rq == get_connection(review_queue, QueueInserts(n, c.st, cases))
               IN  IF stops
                   THEN RouteReturnQueue(c, IF c.kind = "start" THEN RunResult(s) ELSE s, rq)
                   ELSE rq
        /\ audit_log' = get_connection(audit_log, AuditInserts(n, c.st, cases))
        /\ rolled_back' = rolled_back + RolledBack(n, c.st)
        /\ flagged' = [flagged EXCEPT ![c.thread] = @ + FlaggedAdds(n, c.st)]
        /\ historical' = historical + HistoricalAdds(n, c.st)
        /\ UNCHANGED policy_embeddings

Ready(i, n) == i \in 1..Len(calls) /\ Running(i) /\ calls[i].pending = {n}

StepIntake(i) ==
    /\ Ready(i, "intake")
    /\ Advance(i, "intake", _intake_node(calls[i].st))
    /\ UNCHANGED <<config, cases, appeals>>

StepRiskAssessment(i, parsed) ==
    /\ Ready(i, "risk_assessment")
    /\ Advance(i, "risk_assessment", _risk_assessment_node(calls[i].st, parsed))
    /\ UNCHANGED <<config, cases, appeals>>

StepDecision(i) ==
    /\ Ready(i, "make_decision")
    /\ Advance(i, "make_decision", _decision_node(calls[i].st, config))
    /\ UNCHANGED <<config, cases, appeals>>

StepHumanReview(i) ==
    /\ Ready(i, "human_review")
    /\ Advance(i, "human_review", _human_review_node(calls[i].st))
    /\ UNCHANGED <<config, cases, appeals>>

StepAction(i) ==
    /\ Ready(i, "execute_action")
    /\ cases' = ActionCases(calls[i].st, cases)
    /\ Advance(i, "execute_action", _action_node(calls[i].st, cases))
    /\ UNCHANGED <<config, appeals>>

StepNotification(i) ==
    /\ Ready(i, "send_notification")
    /\ Advance(i, "send_notification", _notification_node(calls[i].st))
    /\ UNCHANGED <<config, cases, appeals>>

\* a call that ends with an exception: run() lets it propagate, and
\* resume_with_human_input re-raises it; the last checkpoint put stays
Raise(i, executed) ==
    LET c == calls[i]
    IN  calls' = [calls EXCEPT ![i] =
            [c EXCEPT !.pc = "raised",
                      !.ran = @ \cup executed,
                      !.cpLeft = checkpointer[c.thread].exists,
                      !.hrPatch = IF "human_review" \in executed
                                  THEN \A k \in DOMAIN c.review : Get(c.st, k, "None") = c.review[k]
                                  ELSE @]]

\* the classifier call of _risk_assessment_node raises
LLMRaises(i) ==
    /\ Ready(i, "risk_assessment")
    /\ Raise(i, {})
    /\ cases' = RouteRaiseCases(calls[i], cases)
    /\ review_queue' = RouteRaiseQueue(calls[i], review_queue)
    /\ audit_log' = get_connection(audit_log, RouteRaiseAudit(calls[i]))
    /\ rolled_back' = rolled_back + Len(RouteRaiseAudit(calls[i]))
    /\ UNCHANGED <<config, checkpointer, flagged, historical, policy_embeddings, execCount, appeals>>

\* the store raises in _action_node before anything is committed
StoreRaises(i) ==
    /\ Ready(i, "execute_action")
    /\ Raise(i, {})
    /\ cases' = RouteRaiseCases(calls[i], cases)
    /\ review_queue' = RouteRaiseQueue(calls[i], review_queue)
    /\ audit_log' = get_connection(audit_log, RouteRaiseAudit(calls[i]))
    /\ rolled_back' = rolled_back + Len(RouteRaiseAudit(calls[i]))
    /\ UNCHANGED <<config, checkpointer, flagged, historical, policy_embeddings, execCount, appeals>>

\* a superstep with several unfinished tasks (ainvoke(None) after
\* update_state scheduled the route target beside a task of another run):
\* every task runs on the loaded state, then their writes to the same keys
\* raise InvalidUpdateError and no checkpoint is put
StepConflict(i) ==
    /\ i \in 1..Len(calls) /\ Running(i)
    /\ Cardinality(calls[i].pending) > 1
    /\ LET c == calls[i]
       IN  /\ cases' = RouteRaiseCases(c, IF "execute_action" \in c.pending
                                          THEN ActionCases(c.st, cases) ELSE cases)
           /\ review_queue' = RouteRaiseQueue(c, review_queue)
           /\ rolled_back' = rolled_back + Tally("rolled_back", c.pending, c.st)
                                + Len(RouteRaiseAudit(c))
           /\ audit_log' = get_connection(audit_log, RouteRaiseAudit(c))
           /\ flagged' = [flagged EXCEPT ![c.thread] = @ + Tally("flagged", c.pending, c.st)]
           /\ historical' = historical + Tally("historical", c.pending, c.st)
           /\ UNCHANGED policy_embeddings
           /\ execCount' = [execCount EXCEPT ![c.thread] =
                                [n \in Nodes |-> IF n \in c.pending THEN @[n] + 1 ELSE @[n]]]
           /\ Raise(i, c.pending)
    /\ UNCHANGED <<config, checkpointer, appeals>>

Next ==
    \/ \E t \in Threads, content \in Contents : Start(t, content)
    \/ \E t \in Threads, review \in Reviews : Resume(t, review)
    \/ \E i \in 1..MaxCalls : StepIntake(i)
    \/ \E i \in 1..MaxCalls, parsed \in Assessments : StepRiskAssessment(i, parsed)
    \/ \E i \in 1..MaxCalls : StepDecision(i)
    \/ \E i \in 1..MaxCalls : StepHumanReview(i)
    \/ \E i \in 1..MaxCalls : StepAction(i)
    \/ \E i \in 1..MaxCalls : StepNotification(i)
    \/ \E i \in 1..MaxCalls : LLMRaises(i)
    \/ \E i \in 1..MaxCalls : StoreRaises(i)
    \/ \E i \in 1..MaxCalls : StepConflict(i)

Spec == Init /\ [][Next]_vars

\* one call at a time: a call is made only when no other call is running
Idle == \A j \in 1..Len(calls) : ~Running(j)

SeqNext ==
    \/ \E t \in Threads, content \in Contents : Idle /\ Start(t, content)
    \/ \E t \in Threads, review \in Reviews : Idle /\ Resume(t, review)
    \/ \E i \in 1..MaxCalls : StepIntake(i)
    \/ \E i \in 1..MaxCalls, parsed \in Assessments : StepRiskAssessment(i, parsed)
    \/ \E i \in 1..MaxCalls : StepDecision(i)
    \/ \E i \in 1..MaxCalls : StepHumanReview(i)
    \/ \E i \in 1..MaxCalls : StepAction(i)
    \/ \E i \in 1..MaxCalls : StepNotification(i)
    \/ \E i \in 1..MaxCalls : LLMRaises(i)
    \/ \E i \in 1..MaxCalls : StoreRaises(i)
    \/ \E i \in 1..MaxCalls : StepConflict(i)

SeqSpec == Init /\ [][SeqNext]_vars

\* --------------------------------------------------------- the UI routes
Users == {"u1"}

\* thread_id = f"case_{user_id}_{hash(content) % 100000}"
ThreadOf(user_id, content) ==
    IF user_id = "u1" /\ content = "c1" THEN "t1" ELSE "t2"

\* what the forms can post: the reviews above, a decision the resume
\* endpoint does not list, and one that is no decision at all
RouteReviews ==
    Reviews \cup
    { [moderator_decision |-> "pending", moderator_reasoning |-> "why", moderator_id |-> "m1"],
      [moderator_decision |-> "banana", moderator_reasoning |-> "why", moderator_id |-> "m1"] }

valid_decisions == {"approved", "rejected", "escalated"}

\* POST /api/hitl/workflow/start
start_hitl_workflow(user_id, content) ==
    StartVia("start_hitl_workflow", ThreadOf(user_id, content), content)

\* a request answered at once, without a call of the agent
Answered(via, t, case_id, review, pc) ==
    [NewCall("review", t, EmptyDict, {}, review)
        EXCEPT !.via = via, !.case = case_id, !.pc = pc]

\* POST /api/hitl/workflow/{thread_id}/resume
resume_workflow(thread_id, review) ==
    IF review.moderator_decision \notin valid_decisions
    THEN /\ Len(calls) < MaxCalls
         /\ calls' = Append(calls, Answered("resume_workflow", thread_id, 0, review, "raised"))
         /\ UNCHANGED <<config, checkpointer, cases, rolled_back, flagged, historical, policy_embeddings,
                        execCount, review_queue, audit_log, appeals>>
    ELSE ResumeVia("resume_workflow", 0, thread_id, review)

\* POST /case/{case_id}/review
submit_review(k, review) ==
    /\ k \in 1..Len(cases)
    /\ IF cases[k].decision = "escalated"
       THEN ResumeVia("submit_review", k, CaseId(k), review)
       ELSE LET c == Answered("submit_review", CaseId(k), k, review, "returned")
            IN  /\ Len(calls) < MaxCalls
                /\ calls' = Append(calls, c)
                /\ cases' = update_case_decision(cases, k, review.moderator_decision,
                                                 <<review.moderator_reasoning>>,
                                                 review.moderator_id)
                /\ audit_log' = get_connection(audit_log,
                                    <<_log_audit(CaseId(k), "None", "decision_updated",
                                                 review.moderator_id)>>)
                /\ rolled_back' = rolled_back + 1
                /\ review_queue' = RouteReturnQueue(c, EmptyDict, review_queue)
                /\ UNCHANGED <<config, checkpointer, flagged, historical, policy_embeddings, execCount, appeals>>

RouteCall == Idle /\ Len(calls) < MaxRouteCalls

RouteNext ==
    \/ \E user_id \in Users, content \in Contents :
           RouteCall /\ start_hitl_workflow(user_id, content)
    \/ \E review \in RouteReviews : RouteCall /\ resume_workflow("t1", review)
    \/ \E k \in 1..MaxCalls, review \in RouteReviews : RouteCall /\ submit_review(k, review)
    \/ \E i \in 1..MaxCalls : StepIntake(i)
    \/ \E i \in 1..MaxCalls, parsed \in Assessments : StepRiskAssessment(i, parsed)
    \/ \E i \in 1..MaxCalls : StepDecision(i)
    \/ \E i \in 1..MaxCalls : StepHumanReview(i)
    \/ \E i \in 1..MaxCalls : StepAction(i)
    \/ \E i \in 1..MaxCalls : StepNotification(i)
    \/ \E i \in 1..MaxCalls : LLMRaises(i)
    \/ \E i \in 1..MaxCalls : StoreRaises(i)
    \/ \E i \in 1..MaxCalls : StepConflict(i)

RouteSpec == Init /\ [][RouteNext]_vars

\* ------------------------------------------------- the store and appeals
\* the cases callers hand to create_case
CaseInputs ==
    { [content |-> "c1", decision |-> "rejected", reasoning |-> <<"ai">>, confidence |-> 95,
       violation_type |-> "harassment", severity |-> "high", reviewed_by |-> "agent"],
      [content |-> "c1", decision |-> "escalated", reasoning |-> <<"ai">>, confidence |-> 80,
       violation_type |-> "harassment", severity |-> "high", reviewed_by |-> "agent"] }

AppealOutcomes == {"upheld", "overturned", "escalated"}

\* the store takes another call (each call loses at least one insert)
StoreCall == Idle /\ rolled_back < MaxLost

\* Database.create_case called by a client of the store
CreateCase(s) ==
    /\ StoreCall
    /\ Len(cases) < Len(CaseNames)
    /\ cases' = create_case(cases, s)
    /\ review_queue' = get_connection(review_queue, CreateCaseQueue(cases, s))
    /\ audit_log' = get_connection(audit_log, CreateCaseAudit(cases, s))
    /\ rolled_back' = rolled_back + Len(CreateCaseQueue(cases, s)) + Len(CreateCaseAudit(cases, s))
    /\ UNCHANGED <<config, checkpointer, calls, flagged, historical, policy_embeddings, execCount, appeals>>

\* the row position of an appeal is its id
AppealId(a) == CaseNames[a]

create_appeal(ap, case_id) ==
    Append(ap, [case_id |-> case_id, appeal_decision |-> "pending",
                appeal_reasoning |-> "None", appeal_confidence |-> -1,
                resolved_by |-> "None", resolved_at |-> "None"])

\* the UPDATE of resolve_appeal; a confidence of None is held as -1
resolve_appeal(ap, a, decision, reasoning, resolved_by, confidence) ==
    IF a \in 1..Len(ap)
    THEN [ap EXCEPT ![a] = [@ EXCEPT !.appeal_decision = decision,
                                     !.appeal_reasoning = reasoning,
                                     !.appeal_confidence = confidence,
                                     !.resolved_by = resolved_by,
                                     !.resolved_at = "CURRENT_TIMESTAMP"]]
    ELSE ap

\* the audit row resolve_appeal inserts after its commit
ResolveAudit(ap, a, resolved_by) ==
    <<_log_audit(IF a \in 1..Len(ap) THEN ap[a].case_id ELSE "None",
                 AppealId(a), "appeal_resolved", resolved_by)>>

\* Database.create_appeal for case k (the appeals agent's intake, or the
\* create_appeal tool)
CreateAppeal(k) ==
    /\ StoreCall
    /\ k \in 1..Len(cases)
    /\ Len(appeals) < Len(CaseNames)
    /\ appeals' = create_appeal(appeals, CaseId(k))
    /\ review_queue' = get_connection(review_queue,
                           <<_add_to_review_queue("None", AppealId(Len(appeals) + 1), "medium")>>)
    /\ audit_log' = get_connection(audit_log,
                        <<_log_audit(CaseId(k), AppealId(Len(appeals) + 1), "appeal_filed", "user")>>)
    /\ rolled_back' = rolled_back + 2
    /\ UNCHANGED <<config, checkpointer, calls, cases, flagged, historical, policy_embeddings, execCount>>

\* a caller that only calls resolve_appeal
ResolveOnly(a, decision, resolved_by, confidence) ==
    /\ StoreCall
    /\ a \in 1..Len(appeals)
    /\ appeals' = resolve_appeal(appeals, a, decision, "why", resolved_by, confidence)
    /\ audit_log' = get_connection(audit_log, ResolveAudit(appeals, a, resolved_by))
    /\ rolled_back' = rolled_back + 1
    /\ UNCHANGED <<config, checkpointer, calls, cases, flagged, historical, policy_embeddings, execCount,
                   review_queue>>

\* POST /appeal/{appeal_id}/review
submit_appeal_review(a, decision, moderator_id) == ResolveOnly(a, decision, moderator_id, -1)

\* the resolve_appeal tool of the database server
resolve_appeal_tool(a, decision) == ResolveOnly(a, decision, "agent", 85)

\* AppealsAgent._resolution_node up to the return of resolve_appeal
_resolution_node(a, state) ==
    LET decision == state.appeal_decision IN
    /\ StoreCall
    /\ Len(calls) < MaxCalls
    /\ a \in 1..Len(appeals)
    /\ appeals' = resolve_appeal(appeals, a, decision, "ai", "agent", state.confidence)
    /\ calls' = Append(calls, [NewCall("appeal", appeals[a].case_id, state, {}, NoReview)
                                  EXCEPT !.via = "appeals_agent",
                                         !.case = CaseRowOf(cases, appeals[a].case_id),
                                         !.pc = IF decision = "overturned"
                                                THEN "running" ELSE "returned"])
    /\ audit_log' = get_connection(audit_log,
                        ResolveAudit(appeals, a, "agent")
                        \o (IF decision = "overturned" THEN <<>>
                            ELSE <<_log_audit(appeals[a].case_id, AppealId(a), "appeal", "agent")>>))
    /\ rolled_back' = rolled_back + (IF decision = "overturned" THEN 1 ELSE 2)
    /\ UNCHANGED <<config, checkpointer, cases, flagged, historical, policy_embeddings, execCount, review_queue>>

\* AppealsAgent._resolution_node after an overturn: the original case is
\* updated in a transaction of its own
ResolutionUpdatesCase(i) ==
    /\ i \in 1..Len(calls) /\ Running(i) /\ calls[i].kind = "appeal"
    /\ cases' = update_case_decision(cases, calls[i].case, "approved",
                                     <<"Appeal overturned", "ai">>, "agent")
    /\ calls' = [calls EXCEPT ![i].pc = "returned"]
    /\ audit_log' = get_connection(audit_log,
                        <<_log_audit(calls[i].thread, "None", "decision_updated", "agent"),
                          _log_audit(calls[i].thread, "None", "appeal_overturned", "agent")>>)
    /\ rolled_back' = rolled_back + 2
    /\ UNCHANGED <<config, checkpointer, flagged, historical, policy_embeddings, execCount, review_queue, appeals>>

StoreNext ==
    \/ \E s \in CaseInputs : CreateCase(s)
    \/ \E k \in 1..Len(CaseNames) : CreateAppeal(k)
    \/ \E a \in 1..Len(CaseNames), decision \in AppealOutcomes :
           submit_appeal_review(a, decision, "m1")
    \/ \E a \in 1..Len(CaseNames), decision \in AppealOutcomes : resolve_appeal_tool(a, decision)
    \/ \E a \in 1..Len(CaseNames), decision \in AppealOutcomes :
           _resolution_node(a, [appeal_decision |-> decision, confidence |-> 85])
    \/ \E i \in 1..MaxCalls : ResolutionUpdatesCase(i)

StoreSpec == Init /\ [][StoreNext]_vars

\* one thread moderated under every configuration and assessment
PolicyInit == InitWith(PolicyConfigs)

PolicyCall == Idle /\ Len(calls) < MaxPolicyCalls

PolicyNext ==
    \/ \E content \in Contents : PolicyCall /\ Start("t1", content)
    \/ \E review \in Reviews : PolicyCall /\ Resume("t1", review)
    \/ \E i \in 1..MaxCalls : StepIntake(i)
    \/ \E i \in 1..MaxCalls, parsed \in PolicyAssessments : StepRiskAssessment(i, parsed)
    \/ \E i \in 1..MaxCalls : StepDecision(i)
    \/ \E i \in 1..MaxCalls : StepHumanReview(i)
    \/ \E i \in 1..MaxCalls : StepAction(i)
    \/ \E i \in 1..MaxCalls : StepNotification(i)
    \/ \E i \in 1..MaxCalls : LLMRaises(i)
    \/ \E i \in 1..MaxCalls : StoreRaises(i)
    \/ \E i \in 1..MaxCalls : StepConflict(i)

PolicySpec == PolicyInit /\ [][PolicyNext]_vars

\* ------------------------------------------------------- the review queue
\* the priorities the ORDER BY of get_review_queue ranks
Priorities == {"urgent", "high", "medium", "low"}

\* the seconds at which the rows of a table were inserted
Stamps == {1, 2}

Moderators == {"m1"}

\* the limits the callers of get_review_queue pass: the default of 50 and
\* the limit query parameter of /api/queue/{status}, any integer
Limits == {-1, 0, 1, 50}

QueueStatuses == {"pending", "in_review", "completed"}

\* review_queue tables of pending rows, every priority and insertions within
\* one second included
QueueTables ==
    UNION { [1..n -> { [_add_to_review_queue("case_1", "None", priority)
                          EXCEPT !.created_at = created_at] :
                       priority \in Priorities, created_at \in Stamps }] : n \in 0..MaxRows }

QueueInit ==
    /\ config \in Configs
    /\ checkpointer = [t \in AllThreads |-> NoCheckpoint]
    /\ calls = <<>>
    /\ cases = <<>>
    /\ rolled_back = 0
    /\ flagged = [t \in AllThreads |-> 0]
    /\ historical = 0
    /\ policy_embeddings = 0
    /\ execCount = [t \in AllThreads |-> [n \in Nodes |-> 0]]
    /\ review_queue \in QueueTables
    /\ audit_log = <<>>
    /\ appeals = <<>>

\* UPDATE review_queue SET assigned_to, status = 'in_review' WHERE id = ?
assign_queue_item(rq, queue_id, moderator_id) ==
    [i \in 1..Len(rq) |->
        IF i = queue_id
        THEN [rq[i] EXCEPT !.assigned_to = moderator_id, !.status = "in_review"]
        ELSE rq[i]]

\* UPDATE review_queue SET status = 'completed' WHERE id = ?
complete_queue_item(rq, queue_id) ==
    [i \in 1..Len(rq) |->
        IF i = queue_id THEN [rq[i] EXCEPT !.status = "completed"] ELSE rq[i]]

AssignQueueItem(queue_id, moderator_id) ==
    /\ queue_id \in 1..Len(review_queue)
    /\ review_queue' = assign_queue_item(review_queue, queue_id, moderator_id)
    /\ UNCHANGED <<config, checkpointer, calls, cases, rolled_back, flagged, historical, policy_embeddings,
                   execCount, audit_log, appeals>>

CompleteQueueItem(queue_id) ==
    /\ queue_id \in 1..Len(review_queue)
    /\ review_queue' = complete_queue_item(review_queue, queue_id)
    /\ UNCHANGED <<config, checkpointer, calls, cases, rolled_back, flagged, historical, policy_embeddings,
                   execCount, audit_log, appeals>>

\* a caller reads the queue; calls holds the latest read and its result
GetReviewQueue(status, limit, ties) ==
    /\ calls' = << [kind |-> "get_review_queue", pc |-> "returned", status |-> status,
                     limit |-> limit,
                     result |-> get_review_queue(review_queue, status, limit, ties)] >>
    /\ UNCHANGED <<config, checkpointer, cases, rolled_back, flagged, historical, policy_embeddings,
                   execCount, review_queue, audit_log, appeals>>

QueueNext ==
    \/ \E q \in 1..MaxRows, m \in Moderators : AssignQueueItem(q, m)
    \/ \E q \in 1..MaxRows : CompleteQueueItem(q)
    \/ \E status \in QueueStatuses, limit \in Limits, ties \in TieOrders :
           GetReviewQueue(status, limit, ties)

QueueSpec == QueueInit /\ [][QueueNext]_vars

\* ------------------------------------------------- the classifier response
\* A line of the response is its text up to and including the first colon
\* (head, "" when the line does not start with a recognised prefix) and the
\* text after it (rest).
Lines ==
    { [head |-> "VIOLATION:", rest |-> " yes"],
      [head |-> "VIOLATION:", rest |-> " no"],
      [head |-> "TYPE:", rest |-> " harassment"],
      [head |-> "SEVERITY:", rest |-> " HIGH"],
      [head |-> "SEVERITY:", rest |-> " extreme"],
      [head |-> "CONFIDENCE:", rest |-> " 0.95"],
      [head |-> "CONFIDENCE:", rest |-> " high"],
      [head |-> "REASONING:", rest |-> " r"],
      [head |-> "", rest |-> "looks fine to me"] }

\* the responses of the classifier
Analyses == UNION { [1..n -> Lines] : n \in 0..MaxLines }

\* line.split(":", 1)[1].strip()
strip(rest) ==
    CASE rest = " yes" -> "yes"
      [] rest = " no" -> "no"
      [] rest = " harassment" -> "harassment"
      [] rest = " HIGH" -> "HIGH"
      [] rest = " extreme" -> "extreme"
      [] rest = " 0.95" -> "0.95"
      [] rest = " high" -> "high"
      [] rest = " r" -> "r"
      [] OTHER -> rest

lower(text) ==
    CASE text = "HIGH" -> "high"
      [] text = " HIGH" -> " high"
      [] OTHER -> text

\* float(conf_str) in percent; -1 stands for the ValueError
float(conf_str) ==
    CASE conf_str = "0.95" -> 95
      [] OTHER -> -1

\* "yes" in line.lower()
HasYes(line) == lower(line.rest) = " yes"

\* the value of the first line that starts with TYPE:, None without one
FirstType(lines) ==
    IF \E k \in 1..Len(lines) : lines[k].head = "TYPE:"
    THEN LET k == CHOOSE k \in 1..Len(lines) :
                      /\ lines[k].head = "TYPE:"
                      /\ \A j \in 1..(k - 1) : lines[j].head # "TYPE:"
         IN  strip(lines[k].rest)
    ELSE "None"

\* one pass of the loop body of _parse_llm_response over line k; raised
\* is set when float() raises, which leaves the loop
ParseLine(lines, k, acc, validate) ==
    LET line == lines[k]
        a1 == IF line.head = "VIOLATION:" /\ HasYes(line) /\ FirstType(lines) # "None"
              THEN [acc EXCEPT !.violation_type = FirstType(lines)]
              ELSE acc
        sev == lower(strip(line.rest))
        a2 == IF line.head = "SEVERITY:" /\ (~validate \/ sev \in {"low", "medium", "high", "critical"})
              THEN [a1 EXCEPT !.severity = sev]
              ELSE a1
        conf == float(strip(line.rest))
    IN  IF line.head = "CONFIDENCE:"
        THEN IF conf = -1 THEN [a2 EXCEPT !.raised = TRUE]
             ELSE [a2 EXCEPT !.confidence = conf]
        ELSE IF line.head = "REASONING:" THEN [a2 EXCEPT !.reasoning = strip(line.rest)]
        ELSE a2

RECURSIVE ParseFrom(_, _, _, _)
\* the for loop from line k on
ParseFrom(lines, k, acc, validate) ==
    IF k > Len(lines) \/ acc.raised THEN acc
    ELSE ParseFrom(lines, k + 1, ParseLine(lines, k, acc, validate), validate)

\* tenths
severity_scores == [low |-> 3, medium |-> 6, high |-> 8, critical |-> 10]

Min(a, b) == IF a <= b THEN a ELSE b

\* the risk score without the cap
risk_score_uncapped(confidence, severity) ==
    IF severity # "None" THEN confidence * Get(severity_scores, severity, 6) ELSE 0

\* min(confidence * severity_scores.get(severity, 0.6), 1.0) if severity
\* else 0.0, in thousandths
risk_score(confidence, severity) ==
    IF severity # "None" THEN Min(confidence * Get(severity_scores, severity, 6), 1000) ELSE 0

\* the plain agent: min(confidence * severity_scores.get(severity, 0.6), 1.0)
risk_score_plain(confidence, severity) ==
    Min(confidence * Get(severity_scores, severity, 6), 1000)

\* ModerationAgentWithHITL._parse_llm_response
_parse_llm_response(analysis) ==
    LET acc == ParseFrom(analysis, 1,
                         [violation_type |-> "None", severity |-> "None", confidence |-> 50,
                          reasoning |-> "analysis", raised |-> FALSE], TRUE)
        severity == IF acc.violation_type = "None" THEN "None" ELSE acc.severity
    IN  [violation_type |-> acc.violation_type, severity |-> severity,
         confidence |-> acc.confidence, risk_score |-> risk_score(acc.confidence, severity),
         reasoning |-> acc.reasoning]

\* the parsing of ModerationAgent._risk_assessment_node: what it writes to
\* the pipeline state
plain_risk_assessment(analysis) ==
    LET acc == ParseFrom(analysis, 1,
                         [violation_type |-> "None", severity |-> "medium", confidence |-> 50,
                          reasoning |-> "analysis", raised |-> FALSE], FALSE)
    IN  [violation_type |-> acc.violation_type, severity |-> acc.severity,
         confidence |-> acc.confidence,
         risk_score |-> risk_score_plain(acc.confidence, acc.severity),
         reasoning |-> IF acc.raised THEN "analysis" ELSE acc.reasoning]

\* the classifier has answered; nothing is parsed yet
ParseInit ==
    /\ config \in Configs
    /\ checkpointer = [t \in AllThreads |-> NoCheckpoint]
    /\ calls \in { << [kind |-> "ainvoke", pc |-> "returned", analysis |-> analysis] >> :
                    analysis \in Analyses }
    /\ cases = <<>>
    /\ rolled_back = 0
    /\ flagged = [t \in AllThreads |-> 0]
    /\ historical = 0
    /\ policy_embeddings = 0
    /\ execCount = [t \in AllThreads |-> [n \in Nodes |-> 0]]
    /\ review_queue = <<>>
    /\ audit_log = <<>>
    /\ appeals = <<>>

ParseHITL ==
    /\ calls[1].kind = "ainvoke"
    /\ calls' = << [kind |-> "_parse_llm_response", pc |-> "returned",
                    analysis |-> calls[1].analysis,
                    parsed |-> _parse_llm_response(calls[1].analysis)] >>
    /\ UNCHANGED <<config, checkpointer, cases, rolled_back, flagged, historical, policy_embeddings,
                   execCount, review_queue, audit_log, appeals>>

ParsePlain ==
    /\ calls[1].kind = "ainvoke"
    /\ calls' = << [kind |-> "plain_risk_assessment", pc |-> "returned",
                    analysis |-> calls[1].analysis,
                    parsed |-> plain_risk_assessment(calls[1].analysis)] >>
    /\ UNCHANGED <<config, checkpointer, cases, rolled_back, flagged, historical, policy_embeddings,
                   execCount, review_queue, audit_log, appeals>>

ParseNext ==
    \/ ParseHITL
    \/ ParsePlain

ParseSpec == ParseInit /\ [][ParseNext]_vars

\* ------------------------------------------------------------ risk scores
\* confidences in percent, in steps of ten
Confidences == {10 * k : k \in 0..MaxConfidenceStep}

Severities == {"low", "medium", "high", "critical"}

\* an assessment step computes the risk score of (confidence, severity);
\* calls holds the two latest computations
AssessRisk(agent, confidence, severity) ==
    LET r == [kind |-> agent, pc |-> "returned", confidence |-> confidence,
              severity |-> severity,
              risk_score |-> IF agent = "hitl" THEN risk_score(confidence, severity)
                             ELSE risk_score_plain(confidence, severity)]
    IN  /\ calls' = IF calls = <<>> THEN <<r>> ELSE <<calls[Len(calls)], r>>
        /\ UNCHANGED <<config, checkpointer, cases, rolled_back, flagged, historical, policy_embeddings,
                       execCount, review_queue, audit_log, appeals>>

RiskNext ==
    \E agent \in {"hitl", "plain"}, confidence \in Confidences, severity \in Severities :
        AssessRisk(agent, confidence, severity)

RiskSpec == Init /\ [][RiskNext]_vars

\* ------------------------------------------------------ Python floats
\* A Python float is an IEEE-754 binary64.  A finite non-negative one is held
\* as [m, e]: the bits of its significand, lowest first and without leading
\* zeros (at most 53 of them), and the exponent of the lowest bit; the value
\* is m * 2^e, and zero has no bits.
Precision == 53

Bit(m, i) == IF i \in 1..Len(m) THEN m[i] ELSE 0

\* m without its leading zero bits
Trim(m) ==
    LET ones == {i \in 1..Len(m) : m[i] = 1}
    IN  IF ones = {} THEN <<>>
        ELSE SubSeq(m, 1, CHOOSE i \in ones : \A j \in ones : j <= i)

RECURSIVE Propagate(_, _, _, _)
\* the bits of the number whose columns (digit sums per bit position) are cols
Propagate(cols, k, carry, acc) ==
    IF k > Len(cols) THEN acc
    ELSE Propagate(cols, k + 1, (cols[k] + carry) \div 2, Append(acc, (cols[k] + carry) % 2))

BigAdd(a, b) ==
    LET n == (IF Len(a) >= Len(b) THEN Len(a) ELSE Len(b)) + 1
    IN  Trim(Propagate([k \in 1..n |-> Bit(a, k) + Bit(b, k)], 1, 0, <<>>))

BigMul(a, b) ==
    LET n == Len(a) + Len(b) + 1
        col(k) == Cardinality({i \in 1..Len(a) : a[i] = 1 /\ Bit(b, k + 1 - i) = 1})
    IN  Trim(Propagate([k \in 1..n |-> col(k)], 1, 0, <<>>))

\* a >= b for numbers without leading zeros
BigGE(a, b) ==
    IF Len(a) # Len(b) THEN Len(a) > Len(b)
    ELSE LET diff == {i \in 1..Len(a) : a[i] # b[i]}
         IN  diff = {} \/ a[CHOOSE i \in diff : \A j \in diff : j <= i] = 1

\* m shifted left by k bits
ShiftLeft(m, k) == IF m = <<>> THEN <<>> ELSE [i \in 1..k |-> 0] \o m

RECURSIVE Round(_, _)
\* m * 2^e rounded to the nearest binary64, ties to even
Round(m, e) ==
    IF Len(m) <= Precision THEN [m |-> m, e |-> e]
    ELSE LET drop == Len(m) - Precision
             kept == SubSeq(m, drop + 1, Len(m))
             sticky == \E i \in 1..(drop - 1) : m[i] = 1
             up == m[drop] = 1 /\ (sticky \/ kept[1] = 1)
         IN  Round(IF up THEN BigAdd(kept, <<1>>) ELSE kept, e + drop)

\* x + y
fadd(x, y) ==
    IF x.m = <<>> THEN y
    ELSE IF y.m = <<>> THEN x
    ELSE LET e == IF x.e <= y.e THEN x.e ELSE y.e
         IN  Round(BigAdd(ShiftLeft(x.m, x.e - e), ShiftLeft(y.m, y.e - e)), e)

\* x * y
fmul(x, y) ==
    IF x.m = <<>> \/ y.m = <<>> THEN [m |-> <<>>, e |-> 0]
    ELSE Round(BigMul(x.m, y.m), x.e + y.e)

\* x >= y
fge(x, y) ==
    IF y.m = <<>> THEN TRUE
    ELSE IF x.m = <<>> THEN FALSE
    ELSE LET e == IF x.e <= y.e THEN x.e ELSE y.e
         IN  BigGE(ShiftLeft(x.m, x.e - e), ShiftLeft(y.m, y.e - e))

RECURSIVE HexToBits(_)
\* the bits of a number written in hexadecimal digits, highest digit first
HexToBits(digits) ==
    IF digits = <<>> THEN <<>>
    ELSE LET d == Head(digits)
         IN  HexToBits(Tail(digits)) \o <<d % 2, (d \div 2) % 2, (d \div 4) % 2, (d \div 8) % 2>>

\* the float that float.hex() writes 0x<d1>.<d2 d3 ...>p<exp>
Hex(digits, exp) ==
    [m |-> Trim(HexToBits(digits)), e |-> exp - 4 * (Len(digits) - 1)]

\* float(text) and the floats yaml.safe_load reads: the binary64 nearest to
\* the decimal
float64(text) ==
    CASE text = "0.0" -> [m |-> <<>>, e |-> 0]
      [] text = "0.5" -> Hex(<<1>>, -1)
      [] text = "1.0" -> Hex(<<1>>, 0)
      [] text = "0.4" -> Hex(<<1, 9, 9, 9, 9, 9, 9, 9, 9, 9, 9, 9, 9, 10>>, -2)
      [] text = "0.3" -> Hex(<<1, 3, 3, 3, 3, 3, 3, 3, 3, 3, 3, 3, 3, 3>>, -2)
      [] text = "0.2" -> Hex(<<1, 9, 9, 9, 9, 9, 9, 9, 9, 9, 9, 9, 9, 10>>, -3)
      [] text = "0.1" -> Hex(<<1, 9, 9, 9, 9, 9, 9, 9, 9, 9, 9, 9, 9, 10>>, -4)
      [] text = "0.8" -> Hex(<<1, 9, 9, 9, 9, 9, 9, 9, 9, 9, 9, 9, 9, 10>>, -1)

\* ------------------------------------------------------ the appeals agent
\* config/appeals_config.yaml as written: the weights of the four criteria
\* and the two thresholds
AppealsConfig ==
    [ evaluation_criteria |->
          [new_evidence |-> [weight |-> "0.4"],
           policy_misinterpretation |-> [weight |-> "0.3"],
           user_explanation |-> [weight |-> "0.2"],
           user_history |-> [weight |-> "0.1"]],
      confidence_thresholds |-> [auto_overturn |-> "0.8", escalate |-> "0.5"] ]

\* the scores the evaluator writes on its four SCORE lines
ScoreTexts == {"0.0", "0.5", "1.0"}

Evaluations ==
    [ {"NEW_EVIDENCE_SCORE", "POLICY_SCORE", "EXPLANATION_SCORE", "HISTORY_SCORE"} -> ScoreTexts ]

\* _evaluation_node: the scores parsed and their weighted sum
appeals_evaluation_node(evaluation, cfg) ==
    LET new_evidence_score == float64(evaluation["NEW_EVIDENCE_SCORE"])
        policy_score == float64(evaluation["POLICY_SCORE"])
        explanation_score == float64(evaluation["EXPLANATION_SCORE"])
        history_score == float64(evaluation["HISTORY_SCORE"])
        criteria == cfg.evaluation_criteria
        overall_score ==
            fadd(fadd(fadd(fmul(new_evidence_score, float64(criteria.new_evidence.weight)),
                           fmul(policy_score, float64(criteria.policy_misinterpretation.weight))),
                      fmul(explanation_score, float64(criteria.user_explanation.weight))),
                 fmul(history_score, float64(criteria.user_history.weight)))
    IN  [evaluation |-> evaluation, overall_score |-> overall_score, confidence |-> overall_score]

\* _decision_node of the appeals agent
appeals_decision_node(s, cfg) ==
    LET thresholds == cfg.confidence_thresholds
        decision == IF fge(s.overall_score, float64(thresholds.auto_overturn)) THEN "overturned"
                    ELSE IF fge(s.overall_score, float64(thresholds.escalate)) THEN "escalated"
                    ELSE "upheld"
    IN  [x \in (DOMAIN s) \cup {"appeal_decision"} |->
            IF x = "appeal_decision" THEN decision ELSE s[x]]

\* the state the appeals agent hands to its resolution node, for every
\* evaluation
AppealsStates ==
    [evaluation \in Evaluations |->
        appeals_decision_node(appeals_evaluation_node(evaluation, AppealsConfig), AppealsConfig)]

\* AppealsAgent.run on appeal a: the evaluator's answer is scored, decided
\* and resolved
AppealsRun(a, evaluation) ==
    /\ Len(calls) < MaxAppealRuns
    /\ _resolution_node(a, AppealsStates[evaluation])

AppealNext ==
    \/ \E s \in CaseInputs : CreateCase(s)
    \/ \E k \in 1..Len(CaseNames) : CreateAppeal(k)
    \/ \E a \in 1..Len(CaseNames), evaluation \in Evaluations : AppealsRun(a, evaluation)
    \/ \E i \in 1..MaxCalls : ResolutionUpdatesCase(i)

AppealSpec == Init /\ [][AppealNext]_vars

\* ------------------------------------------------------- the vector store
\* Embeddings have one coordinate, in tenths; a distance is the squared L2
\* distance ChromaDB computes by default, in hundredths.
Embeddings == {0, 5, 20}

\* what the collections can hold: an embedding and the metadata the searches
\* filter on
StoredRecords ==
    { [embedding |-> e, violation_type |-> m[1], decision |-> m[2], category |-> m[1]] :
        e \in Embeddings, m \in {<<"harassment", "rejected">>, <<"scams", "approved">>} }

RECURSIVE SeqsUpTo(_, _)
SeqsUpTo(S, n) ==
    IF n = 0 THEN {<<>>}
    ELSE LET shorter == SeqsUpTo(S, n - 1)
         IN  shorter \cup {Append(q, x) : q \in {r \in shorter : Len(r) = n - 1}, x \in S}

Collections == SeqsUpTo(StoredRecords, MaxRecords)

NResults == {1, 5}

\* min_distance: the default 0.3, and a wider cutoff
MinDistances == {30, 250}

distance(a, b) == (a - b) * (a - b)

similarity_raw(d) == [num |-> d, den |-> 100]

\* 1.0 / (1.0 + distance), as the exact fraction
similarity_score(d) == [num |-> 100, den |-> 100 + d]

\* collection.query(query_embeddings, n_results, where) of ChromaDB: the
\* records that match the where filter, nearest first, at most n_results of
\* them; records at the same distance come in either order
RECURSIVE Nearest(_, _, _, _)
Nearest(records, P, embedding, ties) ==
    IF P = {} THEN <<>>
    ELSE LET d(i) == distance(records[i].embedding, embedding)
             Before(i, j) ==
                 \/ d(i) < d(j)
                 \/ d(i) = d(j) /\ IF ties = "rowid_asc" THEN i <= j ELSE i >= j
             best == CHOOSE i \in P : \A j \in P : Before(i, j)
         IN  <<[id |-> best, metadata |-> records[best], distance |-> d(best)]>>
                 \o Nearest(records, P \ {best}, embedding, ties)

Matches(record, where) ==
    \A key \in DOMAIN where : where[key] = "None" \/ record[key] = where[key]

query(records, embedding, n_results, where, ties) ==
    LET found == Nearest(records, {i \in 1..Len(records) : Matches(records[i], where)},
                         embedding, ties)
    IN  IF n_results >= Len(found) THEN found ELSE SubSeq(found, 1, n_results)

\* the formatting loop of the three searches: one row for every result, in
\* the order of the results
Format(results) ==
    [ i \in 1..Len(results) |->
        [id |-> results[i].id, metadata |-> results[i].metadata,
         distance |-> results[i].distance,
         similarity_score |-> similarity_score(results[i].distance)] ]

\* the rows are appended only "if distance < min_distance"
search_similar_violations(records, content, violation_type, n_results, min_distance, ties) ==
    LET kept(row) == row.distance < min_distance
    IN  SelectSeq(Format(query(records, content, n_results,
                               [violation_type |-> violation_type], ties)),
                  kept)

search_similar_cases(records, content, decision, violation_type, n_results, ties) ==
    Format(query(records, content, n_results,
                 [decision |-> decision, violation_type |-> violation_type], ties))

search_relevant_policies(records, content, category, n_results, ties) ==
    Format(query(records, content, n_results, [category |-> category], ties))

\* a collection has been filled; nothing is searched yet
SimilarityInit ==
    /\ config \in Configs
    /\ checkpointer = [t \in AllThreads |-> NoCheckpoint]
    /\ calls \in { << [kind |-> "add", pc |-> "returned", records |-> records] >> :
                    records \in Collections }
    /\ cases = <<>>
    /\ rolled_back = 0
    /\ flagged = [t \in AllThreads |-> 0]
    /\ historical = 0
    /\ policy_embeddings = 0
    /\ execCount = [t \in AllThreads |-> [n \in Nodes |-> 0]]
    /\ review_queue = <<>>
    /\ audit_log = <<>>
    /\ appeals = <<>>

Searched(kind, content, where, n_results, min_distance, found, result) ==
    /\ Len(calls) = 1
    /\ calls' = << calls[1],
                   [kind |-> kind, pc |-> "returned", content |-> content, where |-> where,
                    n_results |-> n_results, min_distance |-> min_distance,
                    found |-> found, result |-> result] >>
    /\ UNCHANGED <<config, checkpointer, cases, rolled_back, flagged, historical, policy_embeddings,
                   execCount, review_queue, audit_log, appeals>>

SearchSimilarViolations(content, violation_type, n_results, min_distance, ties) ==
    LET where == [violation_type |-> violation_type]
    IN  Searched("search_similar_violations", content, where, n_results, min_distance,
                 query(calls[1].records, content, n_results, where, ties),
                 search_similar_violations(calls[1].records, content, violation_type,
                                           n_results, min_distance, ties))

SearchSimilarCases(content, decision, violation_type, n_results, ties) ==
    LET where == [decision |-> decision, violation_type |-> violation_type]
    IN  Searched("search_similar_cases", content, where, n_results, -1,
                 query(calls[1].records, content, n_results, where, ties),
                 search_similar_cases(calls[1].records, content, decision, violation_type,
                                      n_results, ties))

SearchRelevantPolicies(content, category, n_results, ties) ==
    LET where == [category |-> category]
    IN  Searched("search_relevant_policies", content, where, n_results, -1,
                 query(calls[1].records, content, n_results, where, ties),
                 search_relevant_policies(calls[1].records, content, category, n_results,
                                          ties))

SimilarityNext ==
    \/ \E content \in Embeddings, violation_type \in {"None", "harassment"},
          n_results \in NResults, min_distance \in MinDistances, ties \in TieOrders :
           SearchSimilarViolations(content, violation_type, n_results, min_distance, ties)
    \/ \E content \in Embeddings, decision \in {"None", "rejected"},
          violation_type \in {"None", "harassment"}, n_results \in NResults,
          ties \in TieOrders :
           SearchSimilarCases(content, decision, violation_type, n_results, ties)
    \/ \E content \in Embeddings, category \in {"None", "scams"}, n_results \in NResults,
          ties \in TieOrders :
           SearchRelevantPolicies(content, category, n_results, ties)

SimilaritySpec == SimilarityInit /\ [][SimilarityNext]_vars

\* load_sample_policies adds the five sample policies; the servers call it
\* when they start, before any content is moderated
SamplePolicies == 5

LoadSamplePolicies ==
    /\ calls = <<>>
    /\ policy_embeddings = 0
    /\ policy_embeddings' = SamplePolicies
    /\ UNCHANGED <<config, checkpointer, calls, cases, rolled_back, flagged, historical,
                   execCount, review_queue, audit_log, appeals>>

reset_collections_flagged_only ==
    /\ flagged' = [t \in AllThreads |-> 0]
    /\ UNCHANGED <<config, checkpointer, calls, cases, rolled_back, historical,
                   policy_embeddings, execCount, review_queue, audit_log, appeals>>

\* reset_collections() takes no collection name: it deletes the three
\* collections and creates them again, empty
reset_collections ==
    /\ flagged' = [t \in AllThreads |-> 0]
    /\ policy_embeddings' = 0
    /\ historical' = 0
    /\ UNCHANGED <<config, checkpointer, calls, cases, rolled_back, execCount,
                   review_queue, audit_log, appeals>>

\* the pipeline, one call at a time, with the store's maintenance calls made
\* between the calls
ResetNext ==
    \/ \E t \in Threads, content \in Contents :
           Idle /\ Len(calls) < MaxResetCalls /\ Start(t, content)
    \/ \E t \in Threads, review \in Reviews :
           Idle /\ Len(calls) < MaxResetCalls /\ Resume(t, review)
    \/ \E i \in 1..MaxCalls : StepIntake(i)
    \/ \E i \in 1..MaxCalls, parsed \in Assessments : StepRiskAssessment(i, parsed)
    \/ \E i \in 1..MaxCalls : StepDecision(i)
    \/ \E i \in 1..MaxCalls : StepHumanReview(i)
    \/ \E i \in 1..MaxCalls : StepAction(i)
    \/ \E i \in 1..MaxCalls : StepNotification(i)
    \/ \E i \in 1..MaxCalls : LLMRaises(i)
    \/ \E i \in 1..MaxCalls : StoreRaises(i)
    \/ \E i \in 1..MaxCalls : StepConflict(i)
    \/ LoadSamplePolicies
    \/ Idle /\ reset_collections

ResetSpec == Init /\ [][ResetNext]_vars

\* ------------------------------------------------------- rejected input
\* what a caller can hand to run() as content: nothing, or a message
IntakeContents == {"", "c1"}

\* calls on one thread, one at a time, with either content
IntakeNext ==
    \/ \E content \in IntakeContents : PolicyCall /\ Start("t1", content)
    \/ \E review \in Reviews : PolicyCall /\ Resume("t1", review)
    \/ \E i \in 1..MaxCalls : StepIntake(i)
    \/ \E i \in 1..MaxCalls, parsed \in Assessments : StepRiskAssessment(i, parsed)
    \/ \E i \in 1..MaxCalls : StepDecision(i)
    \/ \E i \in 1..MaxCalls : StepHumanReview(i)
    \/ \E i \in 1..MaxCalls : StepAction(i)
    \/ \E i \in 1..MaxCalls : StepNotification(i)
    \/ \E i \in 1..MaxCalls : LLMRaises(i)
    \/ \E i \in 1..MaxCalls : StoreRaises(i)
    \/ \E i \in 1..MaxCalls : StepConflict(i)

IntakeSpec == Init /\ [][IntakeNext]_vars

\* ------------------------------------------------- the two decision nodes
\* the escalate threshold compared strictly
plain_decision_node_strict(s, cfg) ==
    LET confidence == s["confidence"]
        violation_type == s["violation_type"]
        severity == s["severity"]
        thresholds == cfg.confidence_thresholds
    IN  IF violation_type = "None"
        THEN Merge(s, [decision |-> "approved", action |-> "None"])
        ELSE IF confidence >= thresholds.auto_reject
        THEN Merge(s, [decision |-> "rejected",
                       action |-> Get(Get(Get(cfg.policy_rules, violation_type, EmptyDict),
                                          "actions", EmptyDict),
                                      severity, "permanent_ban")])
        ELSE IF confidence > thresholds.escalate
        THEN Merge(s, [decision |-> "escalated", action |-> "flag_for_review"])
        ELSE Merge(s, [decision |-> "pending", action |-> "flag_for_review"])

\* ModerationAgent._decision_node up to the two keys it writes before it
\* creates the case
plain_decision_node(s, cfg) ==
    LET confidence == s["confidence"]
        violation_type == s["violation_type"]
        severity == s["severity"]
        thresholds == cfg.confidence_thresholds
    IN  IF violation_type = "None"
        THEN Merge(s, [decision |-> "approved", action |-> "None"])
        ELSE IF confidence >= thresholds.auto_reject
        THEN Merge(s, [decision |-> "rejected",
                       action |-> Get(Get(Get(cfg.policy_rules, violation_type, EmptyDict),
                                          "actions", EmptyDict),
                                      severity, "permanent_ban")])
        ELSE IF confidence >= thresholds.escalate
        THEN Merge(s, [decision |-> "escalated", action |-> "flag_for_review"])
        ELSE Merge(s, [decision |-> "pending", action |-> "flag_for_review"])

\* the assessments handed to the decision nodes
DecisionInputs ==
    [ violation_type : {"None", "harassment", "scams"},
      severity : Severities \cup {"None"},
      confidence : Confidences \cup {95} ]

\* both agents decide on the same assessment under the same configuration
DecideBoth(cfg, parsed) ==
    /\ calls' = << [kind |-> "_decision_node", pc |-> "returned", config |-> cfg,
                    parsed |-> parsed,
                    hitl |-> _decision_node(parsed, cfg),
                    plain |-> plain_decision_node(parsed, cfg)] >>
    /\ UNCHANGED <<config, checkpointer, cases, rolled_back, flagged, historical,
                   policy_embeddings, execCount, review_queue, audit_log, appeals>>

DecisionNext == \E cfg \in PolicyConfigs, parsed \in DecisionInputs : DecideBoth(cfg, parsed)

DecisionSpec == Init /\ [][DecisionNext]_vars

\* ------------------------------------------------- reviews and the queue
\* the UI routes, with moderators taking queue items between the requests
ReviewNext ==
    \/ \E user_id \in Users, content \in Contents :
           RouteCall /\ start_hitl_workflow(user_id, content)
    \/ \E review \in RouteReviews : RouteCall /\ resume_workflow("t1", review)
    \/ \E k \in 1..MaxCalls, review \in RouteReviews : RouteCall /\ submit_review(k, review)
    \/ \E q \in 1..MaxRouteCalls, m \in Moderators : Idle /\ AssignQueueItem(q, m)
    \/ \E i \in 1..MaxCalls : StepIntake(i)
    \/ \E i \in 1..MaxCalls, parsed \in Assessments : StepRiskAssessment(i, parsed)
    \/ \E i \in 1..MaxCalls : StepDecision(i)
    \/ \E i \in 1..MaxCalls : StepHumanReview(i)
    \/ \E i \in 1..MaxCalls : StepAction(i)
    \/ \E i \in 1..MaxCalls : StepNotification(i)
    \/ \E i \in 1..MaxCalls : LLMRaises(i)
    \/ \E i \in 1..MaxCalls : StoreRaises(i)
    \/ \E i \in 1..MaxCalls : StepConflict(i)

ReviewSpec == Init /\ [][ReviewNext]_vars

\* ------------------------------------------------------ appeal intake
\* AppealsAgent.run for a new appeal, up to the evaluation node: _intake_node
\* calls create_appeal, _context_retrieval_node looks the case up and
\* records an error when there is none, and _evaluation_node then raises
\* KeyError on state["original_case"]
appeals_intake(case_id) ==
    /\ StoreCall
    /\ Len(calls) < MaxCalls
    /\ Len(appeals) < Len(CaseNames)
    /\ appeals' = create_appeal(appeals, case_id)
    /\ review_queue' = get_connection(review_queue,
                           <<_add_to_review_queue("None", AppealId(Len(appeals) + 1), "medium")>>)
    /\ audit_log' = get_connection(audit_log,
                        <<_log_audit(case_id, AppealId(Len(appeals) + 1), "appeal_filed", "user")>>)
    /\ rolled_back' = rolled_back + 2
    /\ calls' = Append(calls,
                  [NewCall("appeal_intake", case_id,
                           IF CaseRowOf(cases, case_id) = 0
                           THEN [case_id |-> case_id, appeal_id |-> AppealId(Len(appeals) + 1),
                                 error |-> "Original case not found"]
                           ELSE [case_id |-> case_id, appeal_id |-> AppealId(Len(appeals) + 1)],
                           {}, NoReview)
                      EXCEPT !.via = "appeals_agent",
                             !.case = CaseRowOf(cases, case_id),
                             !.ran = {"intake", "retrieve_context"},
                             !.pc = IF CaseRowOf(cases, case_id) = 0
                                    THEN "raised" ELSE "returned"])
    /\ UNCHANGED <<config, checkpointer, cases, flagged, historical, policy_embeddings,
                   execCount>>

AppealIntakeNext ==
    \/ \E s \in CaseInputs : CreateCase(s)
    \/ \E k \in 1..Len(CaseNames) : appeals_intake(CaseId(k))

AppealIntakeSpec == Init /\ [][AppealIntakeNext]_vars


\* ------------------------------------------------------------ statistics
\* Database.get_statistics opens one connection and awaits five SELECTs on
\* it. The connection is opened with sqlite3's default isolation level,
\* under which a SELECT starts no transaction: each statement reads the
\* rows committed when it runs, and the calls of other coroutines commit
\* between two awaits. The call's position is the next statement.
StatisticsQueries ==
    <<"total_cases", "decisions", "cases_24h", "pending_appeals", "review_queue_size">>

\* SELECT decision, COUNT(*) ... GROUP BY decision
CountByDecision(cs) ==
    [d \in {cs[k].decision : k \in 1..Len(cs)} |->
        Cardinality({k \in 1..Len(cs) : cs[k].decision = d})]

\* what one statement of get_statistics returns on the committed rows (every
\* case of a behaviour is younger than 24 hours)
Select(q) ==
    CASE q = "total_cases" -> Len(cases)
      [] q = "decisions" -> CountByDecision(cases)
      [] q = "cases_24h" -> Len(cases)
      [] q = "pending_appeals" ->
            Cardinality({a \in 1..Len(appeals) : appeals[a].appeal_decision = "pending"})
      [] q = "review_queue_size" ->
            Cardinality({k \in 1..Len(review_queue) : review_queue[k].status = "pending"})

\* get_statistics up to its first await
GetStatistics ==
    /\ Idle
    /\ Len(calls) < MaxStatisticsCalls
    /\ \A j \in 1..Len(calls) : calls[j].pc # "reading"
    /\ calls' = Append(calls, [kind |-> "get_statistics", pc |-> "reading", at |-> 1,
                               result |-> EmptyDict, read |-> <<>>])
    /\ UNCHANGED <<config, checkpointer, cases, rolled_back, flagged, historical, policy_embeddings,
                   execCount, review_queue, audit_log, appeals>>

\* the next SELECT of call i; after the last one the call returns the dict
StatisticsSelect(i) ==
    /\ calls[i].pc = "reading"
    /\ LET q == StatisticsQueries[calls[i].at]
       IN calls' = [calls EXCEPT ![i] =
              [@ EXCEPT !.result = Put(@, q, Select(q)),
                        !.read = Append(@, <<cases, appeals, review_queue>>),
                        !.at = @ + 1,
                        !.pc = IF calls[i].at = Len(StatisticsQueries)
                               THEN "returned" ELSE "reading"]]
    /\ UNCHANGED <<config, checkpointer, cases, rolled_back, flagged, historical, policy_embeddings,
                   execCount, review_queue, audit_log, appeals>>

StatisticsNext ==
    \/ GetStatistics
    \/ \E i \in 1..Len(calls) : StatisticsSelect(i)
    \/ \E s \in CaseInputs : CreateCase(s)
    \/ CreateAppeal(1)

StatisticsSpec == Init /\ [][StatisticsNext]_vars

\* ---------------------------------------------------------------- claims
Calls == 1..Len(calls)

\* the thread was suspended before human_review, with no call running on it,
\* when call i was made
Suspended(i) == calls[i].pre.next = {"human_review"} /\ calls[i].pre.overlap = {}

\* call i has done nothing: it has run no node and has not returned a result
Rejected(i) == calls[i].ran = {} /\ calls[i].pc # "returned"

\* C1: a Resume made after a Resume of a suspended thread has completed
\* fails and applies nothing: it runs no node and returns no result.
C1_SecondResumeFails ==
    \A i \in Calls :
        (calls[i].kind = "resume" /\ calls[i].pre.resumed) => Rejected(i)

\* C2: on every thread each of intake, risk_assessment, make_decision,
\* execute_action and send_notification executes at most once, whatever
\* Start and Resume calls are made (threads on which a call raised are
\* left out: a failed run is started again from scratch).
C2_StepsAtMostOnce ==
    \A t \in Threads :
        (\A i \in Calls : calls[i].thread = t => calls[i].pc # "raised") =>
            \A n \in Nodes \ {"human_review"} : execCount[t][n] <= 1

\* C3: a Resume of a suspended thread that returns hands back the
\* moderator's decision and id as decision and reviewed_by, and the case of
\* the run holds them when the call returns.
C3_ResumeAppliesDecision ==
    \A i \in Calls :
        (calls[i].kind = "resume" /\ Suspended(i) /\ calls[i].pc = "returned") =>
            /\ Get(calls[i].result, "decision", "None") = calls[i].review.moderator_decision
            /\ Get(calls[i].result, "reviewed_by", "None") = calls[i].review.moderator_id
            /\ (i = Len(calls) =>
                  LET id == Get(calls[i].result, "case_id", 0)
                  IN  /\ id \in 1..Len(cases)
                      /\ cases[id].decision = calls[i].review.moderator_decision
                      /\ cases[id].reviewed_by = calls[i].review.moderator_id)

C3_Witness ==
    \E i \in Calls :
        /\ calls[i].kind = "resume" /\ Suspended(i) /\ calls[i].pc = "returned"
        /\ i = Len(calls)
        /\ calls[i].review.moderator_decision = "approved"
        /\ cases[calls[i].result["case_id"]].decision = "approved"

\* C4: when a Start, or a Resume of a suspended thread, has run the
\* pipeline to its end, no checkpoint is left for its thread.
C4_NoCheckpointAfterEnd ==
    \A i \in Calls :
        (/\ calls[i].kind = "start" \/ Suspended(i)
         /\ calls[i].pc = "returned" /\ ~calls[i].interrupted) => ~calls[i].cpLeft

\* C5: a Start on a thread that is suspended before human_review fails and
\* runs no node.
C5_StartOnSuspendedFails ==
    \A i \in Calls :
        (calls[i].kind = "start" /\ Suspended(i)) => Rejected(i)

\* C6: of two Start calls on one thread that overlap, only one runs nodes
\* of the pipeline.
C6_OneParallelStartRuns ==
    \A i, j \in Calls :
        (/\ calls[i].kind = "start" /\ calls[j].kind = "start"
         /\ calls[i].thread = calls[j].thread
         /\ i \in calls[j].pre.overlap) =>
            (calls[i].ran = {} \/ calls[j].ran = {})

\* C7: of two Resume calls that race on a suspended thread, only one
\* executes human_review, and the other runs no node.
C7_OneRacingResumeWins ==
    \A i, j \in Calls :
        (/\ calls[i].kind = "resume" /\ calls[j].kind = "resume"
         /\ calls[i].thread = calls[j].thread
         /\ Suspended(i)
         /\ i \in calls[j].pre.overlap) =>
            (calls[i].ran = {} \/ calls[j].ran = {})

\* C8: a Resume on a thread that has no checkpoint fails and touches
\* nothing: it runs no node, returns no result and writes no case.
C8_ResumeWithoutCheckpointFails ==
    \A i \in Calls :
        (calls[i].kind = "resume" /\ ~calls[i].pre.cp) =>
            (Rejected(i) /\ (i = Len(calls) => Len(cases) = calls[i].pre.ncases))

\* C9: when a call ends with an exception, no checkpoint is left for its
\* thread.
C9_NoCheckpointAfterRaise ==
    \A i \in Calls : calls[i].pc = "raised" => ~calls[i].cpLeft

\* C10: human_review executes only inside a Resume call, on a state that
\* holds that call's moderator decision, reasoning and id.
C10_HumanReviewOnlyOnResume ==
    \A i \in Calls :
        "human_review" \in calls[i].ran => (calls[i].kind = "resume" /\ calls[i].hrPatch)

C10_Witness ==
    \E i \in Calls :
        /\ "human_review" \in calls[i].ran
        /\ \E j \in Calls : j < i /\ calls[j].kind = "start" /\ calls[j].interrupted
                               /\ calls[j].thread = calls[i].thread

\* the assessment call i decided on reports a violation with confidence at
\* or above the configured auto-reject threshold
AutoRejectCase(i) ==
    /\ calls[i].kind = "start" /\ "make_decision" \in calls[i].ran
    /\ Get(calls[i].st, "violation_type", "None") # "None"
    /\ Get(calls[i].st, "confidence", 0) >= config.confidence_thresholds.auto_reject

\* the entry of the action table for (violation type, severity),
\* permanent_ban when the table has none
TableAction(violation_type, severity) ==
    IF /\ violation_type \in DOMAIN config.policy_rules
       /\ "actions" \in DOMAIN config.policy_rules[violation_type]
       /\ severity \in DOMAIN config.policy_rules[violation_type]["actions"]
    THEN config.policy_rules[violation_type]["actions"][severity]
    ELSE "permanent_ban"

\* C11: under every threshold configuration, a Start whose assessment
\* reports a violation with confidence >= auto_reject does not suspend, and
\* once it has returned its case is rejected and its action is the entry of
\* the action table, permanent_ban when there is none.
C11_AutoRejectTerminates ==
    \A i \in Calls :
        AutoRejectCase(i) =>
            /\ ~calls[i].interrupted
            /\ calls[i].pc = "returned" =>
                  /\ Get(calls[i].result, "decision", "None") = "rejected"
                  /\ Get(calls[i].result, "action", "None")
                        = TableAction(calls[i].st["violation_type"], calls[i].st["severity"])
                  /\ Get(calls[i].result, "case_id", 0) \in 1..Len(cases)

\* the result of call i carries the tag run() gives a paused workflow
Tagged(i) == Get(calls[i].result, "status", "None") = "PAUSED_FOR_HUMAN_REVIEW"

\* C13: a Start that has returned is tagged PAUSED_FOR_HUMAN_REVIEW exactly
\* when it stopped before human_review; when it is not tagged,
\* execute_action and send_notification have run and nothing is left to run.
C13_TaggedIffSuspended ==
    \A i \in Calls :
        (calls[i].kind = "start" /\ calls[i].pc = "returned") =>
            /\ Tagged(i) <=> calls[i].interrupted
            /\ ~Tagged(i) => /\ {"execute_action", "send_notification"} \subseteq calls[i].ran
                             /\ calls[i].pending = {}

\* the assessment call i decided on reports a violation with confidence
\* strictly between the escalate and the auto-reject threshold
EscalateCase(i) ==
    /\ calls[i].kind = "start" /\ "make_decision" \in calls[i].ran
    /\ Get(calls[i].st, "violation_type", "None") # "None"
    /\ Get(calls[i].st, "confidence", 0) > config.confidence_thresholds.escalate
    /\ Get(calls[i].st, "confidence", 0) < config.confidence_thresholds.auto_reject

\* get_review_queue('pending') returns a high-priority row for thread t
QueuedPending(t) ==
    \A ties \in TieOrders :
        LET rows == get_review_queue(review_queue, "pending", 50, ties)
        IN  \E j \in 1..Len(rows) :
                /\ rows[j].case_id = t /\ rows[j].priority = "high" /\ rows[j].status = "pending"

\* C12: a Start made through start_hitl_workflow whose assessment reports a
\* violation with confidence strictly between the escalate and auto-reject
\* thresholds returns a result tagged PAUSED_FOR_HUMAN_REVIEW, and when it
\* has returned get_review_queue('pending') returns a high-priority pending
\* row for its thread.
C12_EscalatedIsQueued ==
    \A i \in Calls :
        (EscalateCase(i) /\ calls[i].pc = "returned") =>
            /\ Tagged(i)
            /\ i = Len(calls) => QueuedPending(calls[i].thread)

C12_Witness ==
    \E i \in Calls :
        /\ EscalateCase(i) /\ calls[i].pc = "returned" /\ i = Len(calls)
        /\ calls[i].via = "start_hitl_workflow"
        /\ Tagged(i) /\ QueuedPending(calls[i].thread)

\* the decision values of the domain
DomainDecisions == {"approved", "rejected", "escalated", "pending"}

\* C14: a resume or review submission whose decision is no decision value of
\* the domain is rejected: it runs no node, returns no result, and leaves
\* the checkpoint of its thread, the cases and the review queue as they
\* were, whichever entry point received it.
C14_InvalidDecisionRejected ==
    \A i \in Calls :
        (/\ calls[i].kind \in {"resume", "review"}
         /\ calls[i].review.moderator_decision \notin DomainDecisions) =>
            /\ Rejected(i)
            /\ i = Len(calls) =>
                  /\ checkpointer[calls[i].thread] = calls[i].pre.checkpoint
                  /\ cases = calls[i].pre.cases
                  /\ review_queue = calls[i].pre.queue

\* an audit row of action for case id is committed
Audited(id, action) ==
    \E j \in 1..Len(audit_log) : audit_log[j].case_id = id /\ audit_log[j].action = action

\* a pending high-priority queue row for case id is committed
QueuedHigh(id) ==
    \E j \in 1..Len(review_queue) :
        /\ review_queue[j].case_id = id /\ review_queue[j].priority = "high"
        /\ review_queue[j].status = "pending"

\* C15: whenever an escalated Case row becomes visible, its high-priority
\* pending queue row and its case_created audit row become visible in the
\* same step.
C15_EscalatedCaseAtomic ==
    [][\A k \in 1..Len(cases') :
          (k > Len(cases) /\ cases'[k].decision = "escalated") =>
              (QueuedHigh(CaseId(k))' /\ Audited(CaseId(k), "case_created")')]_vars

\* C16: an appeal whose decision is overturned refers to a Case whose
\* decision is approved, in every state an observer can see.
C16_OverturnedCaseApproved ==
    \A a \in 1..Len(appeals) :
        appeals[a].appeal_decision = "overturned" =>
            LET k == CaseRowOf(cases, appeals[a].case_id)
            IN  k # 0 /\ cases[k].decision = "approved"

\* C17: once the decision of an appeal is no longer pending, no step
\* changes any of its fields.
C17_ResolvedOnce ==
    [][\A a \in 1..Len(appeals) :
          appeals[a].appeal_decision # "pending" => appeals'[a] = appeals[a]]_vars

\* the steps the end-to-end scenario expects an audit entry of
AuditedSteps == {"intake", "make_decision", "execute_action", "send_notification"}

\* C18: when a Start has run the pipeline to its end, get_audit_log for its
\* case returns at least one committed entry per step the run executed
\* (intake, decision, action, notification).
C18_AuditEntryPerStep ==
    \A i \in Calls :
        (/\ calls[i].kind = "start" /\ calls[i].pc = "returned" /\ ~calls[i].interrupted
         /\ i = Len(calls)) =>
            LET id == Get(calls[i].result, "case_id", 0)
                log == IF id \in 1..Len(cases) THEN get_audit_log(audit_log, CaseId(id)) ELSE <<>>
            IN  Len(log) >= Cardinality(calls[i].ran \cap AuditedSteps)

\* C20: every Case whose decision is approved has no violation type, and
\* every Case with a violation type has a severity.
C20_CaseInvariant ==
    \A k \in 1..Len(cases) :
        /\ cases[k].decision = "approved" => cases[k].violation_type = "None"
        /\ cases[k].violation_type # "None" => cases[k].severity # "None"

\* the reads of the review queue made so far
QueueReads == {i \in 1..Len(calls) : calls[i].kind = "get_review_queue"}

\* C21: get_review_queue(status, limit) returns only rows of the given
\* status, at most limit of them, by priority rank urgent, high, medium, low
\* and newest first within a priority.
C21_QueueOrdered ==
    \A i \in QueueReads :
        LET rows == calls[i].result
        IN  /\ \A j \in 1..Len(rows) : rows[j].status = calls[i].status
            /\ Len(rows) <= (IF calls[i].limit >= 0 THEN calls[i].limit ELSE 0)
            /\ \A j, k \in 1..Len(rows) :
                   j < k =>
                     /\ PriorityRank(rows[j].priority) <= PriorityRank(rows[k].priority)
                     /\ PriorityRank(rows[j].priority) = PriorityRank(rows[k].priority)
                            => rows[j].created_at >= rows[k].created_at

\* the place of a status on the path pending, in_review, completed
StatusRank(status) ==
    CASE status = "pending" -> 1
      [] status = "in_review" -> 2
      [] status = "completed" -> 3

\* C22: the status of a review-queue row only moves forward along pending,
\* in_review, completed: no step takes a completed row back to in_review or
\* pending, or an in_review row back to pending.
C22_StatusMonotonic ==
    [][\A q \in 1..Len(review_queue) :
          StatusRank(review_queue'[q].status) >= StatusRank(review_queue[q].status)]_vars

\* the decision of a confidence, the presence of a violation and the
\* thresholds, both boundaries inclusive
Decision(confidence, violationPresent, thresholds) ==
    IF ~violationPresent THEN "approved"
    ELSE IF confidence >= thresholds.auto_reject THEN "rejected"
    ELSE IF confidence >= thresholds.escalate THEN "escalated"
    ELSE "pending"

\* call i is a Start whose decision step has run
Decided(i) ==
    /\ calls[i].kind = "start" /\ "make_decision" \in Get(calls[i], "ran", {})
    /\ "human_review" \notin Get(calls[i], "ran", {})

\* C23: the decision step writes Decision(confidence, violationPresent,
\* thresholds): approved without a violation, else rejected from the
\* auto-reject threshold on, else escalated from the escalate threshold on,
\* else pending; exactly one decision for every confidence and thresholds.
C23_DecisionFunction ==
    \A i \in Calls :
        Decided(i) =>
            /\ Get(calls[i].st, "decision", "None") =
                   Decision(Get(calls[i].st, "confidence", 0),
                            Get(calls[i].st, "violation_type", "None") # "None",
                            config.confidence_thresholds)
            /\ Get(calls[i].st, "decision", "None") \in
                   {"approved", "rejected", "escalated", "pending"}

\* a decision was taken with the confidence on the auto-reject threshold and
\* another thread of the run on the escalate threshold
C23_Witness ==
    /\ \E i \in Calls :
           /\ Decided(i)
           /\ Get(calls[i].st, "violation_type", "None") # "None"
           /\ Get(calls[i].st, "confidence", 0) = config.confidence_thresholds.auto_reject
           /\ Get(calls[i].st, "decision", "None") = "rejected"
    /\ \E i \in Calls :
           /\ Decided(i)
           /\ Get(calls[i].st, "violation_type", "None") # "None"
           /\ Get(calls[i].st, "confidence", 0) = config.confidence_thresholds.escalate
           /\ Get(calls[i].st, "decision", "None") = "escalated"

\* call i is a Start that went from make_decision to execute_action
Unreviewed(i) ==
    /\ Decided(i) /\ "execute_action" \in calls[i].ran

\* C24: under every threshold configuration a run that goes from
\* make_decision to execute_action without human review, and is not an
\* auto-reject, has decision approved and no action; a pending or escalated
\* decision never reaches execute_action unreviewed.
C24_UnreviewedIsApproved ==
    \A i \in Calls :
        Unreviewed(i) =>
            /\ ~AutoRejectCase(i) =>
                   /\ Get(calls[i].st, "decision", "None") = "approved"
                   /\ Get(calls[i].st, "action", "None") = "None"
            /\ Get(calls[i].st, "decision", "None") \notin {"pending", "escalated"}

\* C25: the risk score of the assessment step is
\* min(confidence x severityWeight[severity], 1.0) with weights low 0.3,
\* medium 0.6, high 0.8, critical 1.0; for a confidence in [0,1] it lies in
\* [0,1], and it does not decrease when the confidence grows and the
\* severity stays.
C25_RiskScore ==
    \A i \in Calls :
        LET weight == CASE calls[i].severity = "low" -> 3
                        [] calls[i].severity = "medium" -> 6
                        [] calls[i].severity = "high" -> 8
                        [] calls[i].severity = "critical" -> 10
            product == calls[i].confidence * weight
        IN  /\ calls[i].risk_score = (IF product < 1000 THEN product ELSE 1000)
            /\ calls[i].confidence \in 0..100 => calls[i].risk_score \in 0..1000
            /\ \A j \in Calls :
                   ( /\ calls[j].kind = calls[i].kind /\ calls[j].severity = calls[i].severity
                     /\ calls[i].confidence <= calls[j].confidence )
                   => calls[i].risk_score <= calls[j].risk_score

\* two risk scores of one agent and severity were computed, one at its cap
C25_Witness ==
    /\ Len(calls) = 2
    /\ calls[1].kind = calls[2].kind /\ calls[1].severity = calls[2].severity
    /\ calls[1].confidence < calls[2].confidence
    /\ calls[1].risk_score < calls[2].risk_score
    /\ calls[2].risk_score = 1000 /\ calls[2].confidence > 100

\* the responses parsed so far
Parsed == {i \in 1..Len(calls) : calls[i].kind \in {"_parse_llm_response", "plain_risk_assessment"}}

\* the response has a VIOLATION line saying yes and a TYPE line
Signaled(analysis) ==
    /\ \E k \in 1..Len(analysis) : analysis[k].head = "VIOLATION:" /\ analysis[k].rest = " yes"
    /\ \E k \in 1..Len(analysis) : analysis[k].head = "TYPE:"

\* C27: when the classifier response signals no violation, the assessment
\* written to the pipeline state has violation type null and severity null,
\* whatever SEVERITY, CONFIDENCE or TYPE lines it has, in the plain and in
\* the HITL pipeline.
C27_NoViolationIsNull ==
    \A i \in Parsed :
        ~Signaled(calls[i].analysis) =>
            /\ calls[i].parsed.violation_type = "None"
            /\ calls[i].parsed.severity = "None"

\* a line the parser does not recognise, or whose value it cannot read
Malformed(line) ==
    \/ line.head = ""
    \/ line.head = "CONFIDENCE:" /\ line.rest # " 0.95"
    \/ line.head = "SEVERITY:" /\ line.rest # " HIGH"

WellFormed(line) == ~Malformed(line)

\* C28: parsing degrades to the documented defaults: without a readable
\* CONFIDENCE the confidence is 0.5, a signaled violation without a
\* recognised SEVERITY has severity medium, and an unknown or malformed line
\* does not change how the other lines are parsed.
C28_ParseDefaults ==
    \A i \in Parsed :
        LET analysis == calls[i].analysis
            clean == SelectSeq(analysis, WellFormed)
        IN  /\ (\A k \in 1..Len(analysis) :
                    analysis[k].head = "CONFIDENCE:" => Malformed(analysis[k]))
                => calls[i].parsed.confidence = 50
            /\ ( /\ calls[i].parsed.violation_type # "None"
                 /\ \A k \in 1..Len(analysis) :
                        analysis[k].head = "SEVERITY:" => Malformed(analysis[k]) )
                => calls[i].parsed.severity = "medium"
            /\ calls[i].parsed =
                   IF calls[i].kind = "_parse_llm_response"
                   THEN _parse_llm_response(clean)
                   ELSE plain_risk_assessment(clean)

\* a decimal in tenths
Tenths(text) ==
    CASE text = "0.0" -> 0
      [] text = "0.1" -> 1
      [] text = "0.2" -> 2
      [] text = "0.3" -> 3
      [] text = "0.4" -> 4
      [] text = "0.5" -> 5
      [] text = "0.8" -> 8
      [] text = "1.0" -> 10

\* the weighted sum of the four sub-scores, in hundredths
AppealComposite(evaluation) ==
    LET criteria == AppealsConfig.evaluation_criteria
    IN  Tenths(evaluation["NEW_EVIDENCE_SCORE"]) * Tenths(criteria.new_evidence.weight)
        + Tenths(evaluation["POLICY_SCORE"]) * Tenths(criteria.policy_misinterpretation.weight)
        + Tenths(evaluation["EXPLANATION_SCORE"]) * Tenths(criteria.user_explanation.weight)
        + Tenths(evaluation["HISTORY_SCORE"]) * Tenths(criteria.user_history.weight)

AppealDecision(composite) ==
    IF composite >= 10 * Tenths(AppealsConfig.confidence_thresholds.auto_overturn) THEN "overturned"
    ELSE IF composite >= 10 * Tenths(AppealsConfig.confidence_thresholds.escalate) THEN "escalated"
    ELSE "upheld"

\* C26: the decision the appeals pipeline stores for an appeal is the
\* threshold function of the exact weighted sum of its four sub-scores:
\* overturned from the auto-overturn threshold on, else escalated from the
\* escalate threshold on, else upheld.
C26_AppealDecisionExact ==
    \A i \in Calls :
        (calls[i].kind = "appeal" /\ "evaluation" \in DOMAIN calls[i].st) =>
            /\ calls[i].st.appeal_decision = AppealDecision(AppealComposite(calls[i].st.evaluation))
            /\ \E a \in 1..Len(appeals) :
                   /\ appeals[a].case_id = calls[i].thread
                   /\ appeals[a].appeal_decision = calls[i].st.appeal_decision

Searches ==
    {i \in 1..Len(calls) : calls[i].kind \in {"search_similar_violations",
                                               "search_similar_cases",
                                               "search_relevant_policies"}}

\* a >= b, for fractions with positive denominators
FractionGE(a, b) == a.num * b.den >= b.num * a.den

PositionIn(found, id) == CHOOSE p \in 1..Len(found) : found[p].id = id

\* C29: every similarity query returns its rows by non-increasing similarity
\* score; each score is 1/(1+distance) and lies in (0,1]; a stored record whose
\* embedding is the query's has distance 0 and score 1.0, no row with a lower
\* score is ranked before it, and when such a record matches the filter the
\* first row has score 1.0; the cutoff of the flagged-content search removes
\* exactly the rows at or beyond min_distance and keeps the others in the
\* order the query gave them.
C29_SimilarityRanked ==
    \A i \in Searches :
        LET c == calls[i]
            records == calls[1].records
            rows == c.result
            score(k) == rows[k].similarity_score
            one == [num |-> 1, den |-> 1]
            exact(k) == FractionGE(score(k), one) /\ FractionGE(one, score(k))
        IN  /\ \A k \in 1..Len(rows) :
                   /\ rows[k].distance = distance(records[rows[k].id].embedding, c.content)
                   /\ score(k).den > 0
                   /\ score(k).num * (100 + rows[k].distance) = 100 * score(k).den
                   /\ score(k).num > 0
                   /\ FractionGE(one, score(k))
            /\ \A k, l \in 1..Len(rows) : k < l => FractionGE(score(k), score(l))
            /\ \A k \in 1..Len(rows) :
                   records[rows[k].id].embedding = c.content =>
                       /\ rows[k].distance = 0
                       /\ exact(k)
                       /\ \A l \in 1..(k - 1) : exact(l)
            /\ (\E r \in 1..Len(records) :
                    records[r].embedding = c.content /\ Matches(records[r], c.where))
                   => Len(rows) > 0 /\ exact(1)
            /\ c.kind = "search_similar_violations" =>
                   /\ \A k \in 1..Len(rows) : \E p \in 1..Len(c.found) : c.found[p].id = rows[k].id
                   /\ \A k, l \in 1..Len(rows) :
                          k < l => PositionIn(c.found, rows[k].id) < PositionIn(c.found, rows[l].id)
                   /\ \A p \in 1..Len(c.found) :
                          (\E k \in 1..Len(rows) : rows[k].id = c.found[p].id)
                              <=> c.found[p].distance < c.min_distance

\* a flagged-content search whose cutoff removed a row and kept two, the
\* first of them a record identical to the query that was stored last
C29_Witness ==
    \E i \in Searches :
        /\ calls[i].kind = "search_similar_violations"
        /\ Len(calls[i].found) > Len(calls[i].result)
        /\ Len(calls[i].result) = 2
        /\ calls[i].result[1].id = Len(calls[1].records)
        /\ calls[1].records[calls[i].result[1].id].embedding = calls[i].content
        /\ calls[i].result[1].similarity_score = [num |-> 100, den |-> 100]
        /\ calls[i].result[2].distance > 0

FlaggedEmpty == \A t \in AllThreads : flagged[t] = 0

\* a step that takes records out of a collection
Shrinks ==
    \/ \E t \in AllThreads : flagged'[t] < flagged[t]
    \/ historical' < historical
    \/ policy_embeddings' < policy_embeddings

\* C30: a reset empties one collection and leaves the records of the other
\* two as they were, and no step of the pipeline (a step of a run() or
\* resume_with_human_input() call) takes records out of a collection.
C30_ResetNamed ==
    [][ /\ (~FlaggedEmpty /\ \A t \in AllThreads : flagged'[t] = 0)
            => historical' = historical /\ policy_embeddings' = policy_embeddings
        /\ (historical > 0 /\ historical' = 0)
            => flagged' = flagged /\ policy_embeddings' = policy_embeddings
        /\ (policy_embeddings > 0 /\ policy_embeddings' = 0)
            => flagged' = flagged /\ historical' = historical
        /\ Shrinks => UNCHANGED <<calls, checkpointer, cases>> ]_vars

\* C30, amended: a reset empties the three collections together, and no
\* step of the pipeline takes records out of a collection.
C30_ResetAll ==
    [][ Shrinks =>
          /\ \A t \in AllThreads : flagged'[t] = 0
          /\ historical' = 0
          /\ policy_embeddings' = 0
          /\ UNCHANGED <<calls, checkpointer, cases>> ]_vars

\* a call has stored its case in historical_cases and flagged its content,
\* and the collections are empty
C30_Witness ==
    /\ \E i \in 1..Len(calls) :
           /\ calls[i].pc = "returned"
           /\ "execute_action" \in calls[i].ran
           /\ HistoricalAdds("execute_action", calls[i].st) = 1
           /\ FlaggedAdds("execute_action", calls[i].st) = 1
    /\ FlaggedEmpty
    /\ historical = 0
    /\ policy_embeddings = 0

\* C40: a thread whose content was classified once has at most one record
\* in the flagged-content collection, whatever Start and Resume calls were
\* made on it, and none when the classifier found no violation.
C40_OneFlaggedInsert ==
    \A t \in Threads :
        execCount[t]["risk_assessment"] <= 1 =>
            /\ flagged[t] <= 1
            /\ (/\ execCount[t]["risk_assessment"] = 1
                /\ ~Truthy(Get(checkpointer[t].values, "violation_type", "None")))
                   => flagged[t] = 0

\* call i has just run make_decision: its route is what it will run next
JustDecided(i) ==
    /\ "make_decision" \in calls[i].ran
    /\ calls[i].ran \cap {"human_review", "execute_action", "send_notification"} = {}
    /\ calls[i].pc # "raised"

\* C36: the needs_human_review flag written by the decision step is true
\* exactly when the route taken after the step is human_review.
C36_FlagAgreesWithRoute ==
    \A i \in 1..Len(calls) :
        JustDecided(i) =>
            (Get(calls[i].st, "needs_human_review", FALSE)
                <=> calls[i].pending = {"human_review"})

\* intake has rejected the input of call i
IntakeRejected(i) ==
    /\ calls[i].kind = "start"
    /\ "intake" \in calls[i].ran
    /\ ~Truthy(Get(calls[i].st, "content", "None"))
    /\ Has(calls[i].st, "error")

\* C37: once intake has rejected the input of a run, no later step of the
\* run executes (no assessment, no case, no notification) and the run does
\* not pause before human_review.
C37_RejectedInputStops ==
    \A i \in 1..Len(calls) :
        IntakeRejected(i) =>
            /\ calls[i].ran \subseteq {"intake"}
            /\ ~calls[i].interrupted
            /\ ~Has(calls[i].st, "case_id")

\* C39: on every assessment and under every configuration, the decision
\* node of ModerationAgent and the one of ModerationAgentWithHITL write the
\* same decision and the same action.
C39_VariantsAgree ==
    \A i \in 1..Len(calls) :
        calls[i].kind = "_decision_node" =>
            /\ Get(calls[i].hitl, "decision", "unset") = Get(calls[i].plain, "decision", "unset")
            /\ Get(calls[i].hitl, "action", "unset") = Get(calls[i].plain, "action", "unset")
            /\ Get(calls[i].plain, "decision", "unset")
                   \in {"approved", "rejected", "escalated", "pending"}

\* both nodes have escalated an assessment whose confidence is the escalate
\* threshold itself
C39_Witness ==
    \E i \in 1..Len(calls) :
        /\ calls[i].kind = "_decision_node"
        /\ calls[i].parsed.confidence = calls[i].config.confidence_thresholds.escalate
        /\ Get(calls[i].hitl, "decision", "unset") = "escalated"
        /\ Get(calls[i].plain, "decision", "unset") = "escalated"

\* the latest request is a case review form that has been answered with the
\* redirect (the agent's call returned, or it raised and the form fell back
\* to the direct update)
ReviewSubmitted ==
    /\ calls # <<>>
    /\ calls[Len(calls)].via = "submit_review"
    /\ calls[Len(calls)].pc \in {"returned", "raised"}

\* C35: once submit_review has answered for an existing case, the row of
\* that case holds the submitted decision and the submitting moderator.
C35_ReviewReachesCase ==
    ReviewSubmitted =>
        LET c == calls[Len(calls)]
        IN  /\ cases[c.case].decision = c.review.moderator_decision
            /\ cases[c.case].reviewed_by = c.review.moderator_id

OpenRows(rq, id) ==
    {q \in 1..Len(rq) : rq[q].case_id = id /\ rq[q].status \in {"pending", "in_review"}}

\* request i is answered by this step
AnsweredNow(i) ==
    /\ i \in 1..Len(calls')
    /\ calls'[i].pc # "running"
    /\ i \in 1..Len(calls) => calls[i].pc = "running"

\* this step belongs to request i
StepOf(i) ==
    /\ i \in 1..Len(calls')
    /\ i \in 1..Len(calls) => calls'[i] # calls[i]

C34_ThreadsIndependent ==
    [][ /\ \A j \in 1..Len(calls') :
               (j > Len(calls) /\ calls'[j].via = "start_hitl_workflow")
                   => "human_review" \notin calls'[j].pre.next /\ calls'[j].pre.overlap = {}
        /\ \A t \in AllThreads :
               checkpointer'[t] # checkpointer[t]
                   => \E i \in 1..MaxCalls : StepOf(i) /\ calls'[i].thread = t ]_vars

\* C33: an appeal submitted for a case id that no case has is refused, and
\* no appeal row, queue item or audit entry is stored for it.
C33_UnknownCaseRefused ==
    \A i \in 1..Len(calls) :
        (calls[i].kind = "appeal_intake" /\ calls[i].case = 0) =>
            /\ calls[i].pc = "raised"
            /\ \A a \in 1..Len(appeals) : appeals[a].case_id # calls[i].thread
            /\ \A q \in 1..Len(review_queue) :
                   review_queue[q].appeal_id # calls[i].st.appeal_id
            /\ \A e \in 1..Len(audit_log) : audit_log[e].appeal_id # calls[i].st.appeal_id

\* sum of the counts of a GROUP BY result
RECURSIVE SumCounts(_, _)
SumCounts(f, D) ==
    IF D = {} THEN 0
    ELSE LET d == CHOOSE x \in D : TRUE IN f[d] + SumCounts(f, D \ {d})

StatisticsReturned(i) ==
    calls[i].kind = "get_statistics" /\ calls[i].pc = "returned"

\* C31: the dict get_statistics returns is one snapshot of the store, also
\* when cases and appeals are written while it runs: total_cases is the sum
\* of the per-decision counts, and all five counts were read from the same
\* committed rows.
C31_StatisticsSnapshot ==
    \A i \in 1..Len(calls) :
        StatisticsReturned(i) =>
            /\ Get(calls[i].result, "total_cases", -1)
                 = SumCounts(Get(calls[i].result, "decisions", <<>>),
                             DOMAIN Get(calls[i].result, "decisions", <<>>))
            /\ \A a, b \in 1..Len(calls[i].read) : calls[i].read[a] = calls[i].read[b]

\* call j was made on a thread where a call of the other kind was running
Interleaves(cs, j) ==
    /\ cs[j].kind \in {"start", "resume"}
    /\ \E i \in cs[j].pre.overlap :
           cs[i].kind \in {"start", "resume"} /\ cs[i].kind # cs[j].kind

\* C32: a Start and a Resume on one thread never interleave: a call made
\* while a call of the other kind is running on its thread (a Resume while
\* the Start is between two steps, or the reverse) leaves the thread's
\* checkpoint as it was and never runs a node.
C32_StartResumeExclusive ==
    [][\A j \in 1..Len(calls') :
          Interleaves(calls', j) =>
              /\ calls'[j].ran = {}
              /\ j > Len(calls) =>
                     checkpointer'[calls'[j].thread] = checkpointer[calls'[j].thread]]_vars

====
